---- MODULE Spec2Model ----
(***************************************************************************)
(* Staffing-plan generation (parseJsonWithRetry, generateStaffingPlan) and *)
(* conversational revision (getChatResponse).                              *)
(*                                                                         *)
(* A text is a sequence of characters, each a string.  The model's texts   *)
(* hold no backslash escapes other than the ones ParseStringFrom reads,    *)
(* and numbers are integers.                                               *)
(***************************************************************************)
EXTENDS Integers, Sequences, FiniteSets, TLC

\* ---------------------------------------------------------------- texts

Space == {" ", "\n", "\t", "\r"}

Digits == {"0", "1", "2", "3", "4", "5", "6", "7", "8", "9"}

DigitValue(c) ==
  CASE c = "0" -> 0 [] c = "1" -> 1 [] c = "2" -> 2 [] c = "3" -> 3
    [] c = "4" -> 4 [] c = "5" -> 5 [] c = "6" -> 6 [] c = "7" -> 7
    [] c = "8" -> 8 [] c = "9" -> 9

\* The suffix of s from position i on (1-based).
From(s, i) == SubSeq(s, i, Len(s))

\* /i folding of the letters the fence pattern can match.
Fold(c) ==
  CASE c = "J" -> "j" [] c = "S" -> "s" [] c = "O" -> "o" [] c = "N" -> "n"
    [] OTHER -> c

\* Whether pat occurs in s at position i; fold: case-insensitive.
MatchAt(s, i, pat, fold) ==
  /\ i + Len(pat) - 1 <= Len(s)
  /\ \A k \in 1..Len(pat) :
       IF fold THEN Fold(s[i + k - 1]) = Fold(pat[k]) ELSE s[i + k - 1] = pat[k]

\* The first position at or after i where pat occurs in s, 0 when there is
\* none.
FirstMatch(s, pat, i, fold) ==
  LET hits == { j \in i..(Len(s) - Len(pat) + 1) : MatchAt(s, j, pat, fold) }
  IN  IF hits = {} THEN 0 ELSE CHOOSE j \in hits : \A h \in hits : j <= h

\* String.prototype.replace(/pat/g, ""): matches are taken left to right and
\* do not overlap.
RECURSIVE RemoveAll(_, _, _)
RemoveAll(s, pat, fold) ==
  LET at == FirstMatch(s, pat, 1, fold)
  IN  IF at = 0 THEN s
      ELSE SubSeq(s, 1, at - 1) \o RemoveAll(From(s, at + Len(pat)), pat, fold)

\* The first position at or after i whose character is not in set (Len(s)+1
\* when there is none).
RECURSIVE SkipIn(_, _, _)
SkipIn(s, i, set) ==
  IF i <= Len(s) /\ s[i] \in set THEN SkipIn(s, i + 1, set) ELSE i

\* The last position at or before i whose character is not in set (0 when
\* there is none).
RECURSIVE SkipBackIn(_, _, _)
SkipBackIn(s, i, set) ==
  IF i >= 1 /\ s[i] \in set THEN SkipBackIn(s, i - 1, set) ELSE i

StripLeading(s, set) == From(s, SkipIn(s, 1, set))

StripTrailing(s, set) == SubSeq(s, 1, SkipBackIn(s, Len(s), set))

\* String.prototype.trim
Trim(s) == StripTrailing(StripLeading(s, Space), Space)

\* The backquote character (U+0060), which a TLA+ string cannot hold.
Backquote == "BQ"

Fence == <<Backquote, Backquote, Backquote>>

FenceJson == Fence \o <<"j", "s", "o", "n">>

Wrapping == {"(", ")"} \cup Space

sanitizePotentialFormatting(raw) ==
  LET cleaned1 == RemoveAll(RemoveAll(raw, FenceJson, TRUE), Fence, FALSE)
      cleaned2 == StripTrailing(StripLeading(cleaned1, Wrapping), Wrapping)
  IN  Trim(cleaned2)

\* ------------------------------------------------------------ JSON.parse

\* A JSON value is [t |-> tag, s |-> text, n |-> integer, c |-> children]:
\*   "obj": c holds the members [k |-> key, v |-> value], in source order
\*   "arr": c holds the elements as members with an empty key
\*   "str": s is the text    "num": n is the integer
\*   "lit": s is <<"true">>, <<"false">> or <<"null">>
JsonValue(t, s, n, c) == [t |-> t, s |-> s, n |-> n, c |-> c]

StrV(text) == JsonValue("str", text, 0, <<>>)

NumV(n) == JsonValue("num", <<>>, n, <<>>)

LitV(name) == JsonValue("lit", <<name>>, 0, <<>>)

ObjV(members) == JsonValue("obj", <<>>, 0, members)

ArrV(values) ==
  JsonValue("arr", <<>>, 0, [i \in 1..Len(values) |-> [k |-> <<>>, v |-> values[i]]])

\* The elements of an array.
Items(v) == [i \in 1..Len(v.c) |-> v.c[i].v]

NoValue == JsonValue("none", <<>>, 0, <<>>)

ParseFail == [ok |-> FALSE, val |-> NoValue, pos |-> 0]

ParseOk(val, pos) == [ok |-> TRUE, val |-> val, pos |-> pos]

Escapes == {"\"", "\\", "/", "n", "t", "r", "b", "f"}

Unescape(c) ==
  CASE c = "n" -> "\n" [] c = "t" -> "\t" [] c = "r" -> "\r" [] OTHER -> c

\* The characters of a string literal from position i (after the opening
\* quote) to its closing quote.  A raw control character ends the parse.
RECURSIVE ParseStringFrom(_, _, _)
ParseStringFrom(s, i, acc) ==
  IF i > Len(s) THEN ParseFail
  ELSE IF s[i] = "\"" THEN ParseOk(acc, i + 1)
  ELSE IF s[i] \in {"\n", "\t", "\r"} THEN ParseFail
  ELSE IF s[i] = "\\" THEN
    IF i + 1 <= Len(s) /\ s[i + 1] \in Escapes
    THEN ParseStringFrom(s, i + 2, Append(acc, Unescape(s[i + 1])))
    ELSE ParseFail
  ELSE ParseStringFrom(s, i + 1, Append(acc, s[i]))

RECURSIVE DigitsValue(_, _, _)
DigitsValue(s, i, acc) ==
  IF i <= Len(s) /\ s[i] \in Digits
  THEN DigitsValue(s, i + 1, 10 * acc + DigitValue(s[i]))
  ELSE acc

\* An integer: an optional minus, then 0 or a digit run not starting with 0.
ParseNumber(s, i) ==
  LET neg == s[i] = "-"
      d   == IF neg THEN i + 1 ELSE i
      e   == SkipIn(s, d, Digits)
  IN  IF d > Len(s) \/ s[d] \notin Digits THEN ParseFail
      ELSE IF s[d] = "0" THEN ParseOk(NumV(0), d + 1)
      ELSE ParseOk(NumV(IF neg THEN 0 - DigitsValue(s, d, 0) ELSE DigitsValue(s, d, 0)), e)

ParseLiteral(s, i) ==
  LET w1 == <<"t", "r", "u", "e">>
      w2 == <<"f", "a", "l", "s", "e">>
      w3 == <<"n", "u", "l", "l">>
  IN  IF MatchAt(s, i, w1, FALSE) THEN ParseOk(LitV("true"), i + 4)
      ELSE IF MatchAt(s, i, w2, FALSE) THEN ParseOk(LitV("false"), i + 5)
      ELSE IF MatchAt(s, i, w3, FALSE) THEN ParseOk(LitV("null"), i + 4)
      ELSE ParseFail

RECURSIVE ParseValue(_, _), ParseElements(_, _, _), ParseMembers(_, _, _)

\* The value starting at the first non-space position at or after i.
ParseValue(s, i) ==
  LET p == SkipIn(s, i, Space)
  IN  IF p > Len(s) THEN ParseFail
      ELSE IF s[p] = "{" THEN
        LET q == SkipIn(s, p + 1, Space)
        IN  IF q <= Len(s) /\ s[q] = "}" THEN ParseOk(ObjV(<<>>), q + 1)
            ELSE ParseMembers(s, q, <<>>)
      ELSE IF s[p] = "[" THEN
        LET q == SkipIn(s, p + 1, Space)
        IN  IF q <= Len(s) /\ s[q] = "]" THEN ParseOk(ArrV(<<>>), q + 1)
            ELSE ParseElements(s, q, <<>>)
      ELSE IF s[p] = "\"" THEN
        LET r == ParseStringFrom(s, p + 1, <<>>)
        IN  IF r.ok THEN ParseOk(StrV(r.val), r.pos) ELSE ParseFail
      ELSE IF s[p] = "-" \/ s[p] \in Digits THEN ParseNumber(s, p)
      ELSE ParseLiteral(s, p)

\* The elements of an array from position i (a value must start there) to
\* its closing bracket.
ParseElements(s, i, acc) ==
  LET r == ParseValue(s, i)
  IN  IF ~r.ok THEN ParseFail
      ELSE LET q == SkipIn(s, r.pos, Space)
           IN  IF q > Len(s) THEN ParseFail
               ELSE IF s[q] = "]" THEN ParseOk(ArrV(Append(acc, r.val)), q + 1)
               ELSE IF s[q] = "," THEN ParseElements(s, q + 1, Append(acc, r.val))
               ELSE ParseFail

\* The members of an object from position i (a key must start there) to its
\* closing brace.
ParseMembers(s, i, acc) ==
  LET p == SkipIn(s, i, Space)
  IN  IF p > Len(s) \/ s[p] # "\"" THEN ParseFail
      ELSE
        LET k == ParseStringFrom(s, p + 1, <<>>)
        IN  IF ~k.ok THEN ParseFail
            ELSE
              LET c == SkipIn(s, k.pos, Space)
              IN  IF c > Len(s) \/ s[c] # ":" THEN ParseFail
                  ELSE
                    LET r == ParseValue(s, c + 1)
                    IN  IF ~r.ok THEN ParseFail
                        ELSE
                          LET q  == SkipIn(s, r.pos, Space)
                              m  == Append(acc, [k |-> k.val, v |-> r.val])
                          IN  IF q > Len(s) THEN ParseFail
                              ELSE IF s[q] = "}" THEN ParseOk(ObjV(m), q + 1)
                              ELSE IF s[q] = "," THEN ParseMembers(s, q + 1, m)
                              ELSE ParseFail

\* JSON.parse: [ok |-> TRUE, val |-> the value] or [ok |-> FALSE] (a
\* SyntaxError).  Only white space may follow the value.
JsonParse(s) ==
  LET r == ParseValue(s, 1)
  IN  IF r.ok /\ SkipIn(s, r.pos, Space) > Len(s)
      THEN [ok |-> TRUE, val |-> r.val]
      ELSE [ok |-> FALSE, val |-> NoValue]

\* ---------------------------------------------------------- JS values

Undefined == JsonValue("undef", <<>>, 0, <<>>)

\* v[key] for a parsed value v that is not null: the last member of that
\* name of an object, undefined otherwise (the keys read are never own
\* properties of an array, a string or a number).
Get(v, key) ==
  IF v.t # "obj" THEN Undefined
  ELSE LET at == { i \in 1..Len(v.c) : v.c[i].k = key }
       IN  IF at = {} THEN Undefined
           ELSE v.c[CHOOSE i \in at : \A j \in at : j <= i].v

Null == LitV("null")

\* Reading a property of null or undefined is a TypeError.
IsNullish(v) == v.t = "undef" \/ v = Null

\* v?.key
OptGet(v, key) == IF IsNullish(v) THEN Undefined ELSE Get(v, key)

\* ToBoolean.
Truthy(v) ==
  CASE v.t \in {"obj", "arr"} -> TRUE
    [] v.t = "str" -> v.s # <<>>
    [] v.t = "num" -> v.n # 0
    [] v.t = "lit" -> v.s = <<"true">>
    [] OTHER -> FALSE

\* -------------------------------------------------------- JSON.stringify

\* The decimal digits of a natural number.
RECURSIVE NatText(_)
NatText(n) ==
  LET d == CHOOSE c \in Digits : DigitValue(c) = n % 10
  IN  IF n < 10 THEN <<d>> ELSE Append(NatText(n \div 10), d)

\* The characters of a string literal for the text w, escapes included.
RECURSIVE Escaped(_)
Escaped(w) ==
  IF w = <<>> THEN <<>>
  ELSE LET c == Head(w)
       IN  (CASE c \in {"\"", "\\"} -> <<"\\", c>>
              [] c = "\n" -> <<"\\", "n">>
              [] c = "\t" -> <<"\\", "t">>
              [] c = "\r" -> <<"\\", "r">>
              [] OTHER -> <<c>>) \o Escaped(Tail(w))

Indent(depth) == [i \in 1..(2 * depth) |-> " "]

\* JSON.stringify(v, null, 2) at nesting depth: members and elements each on
\* a line of their own, indented by two spaces per level.
RECURSIVE Stringify(_, _), StringifyAll(_, _, _)
Stringify(v, depth) ==
  CASE v.t = "str" -> <<"\"">> \o Escaped(v.s) \o <<"\"">>
    [] v.t = "num" -> IF v.n < 0 THEN <<"-">> \o NatText(-v.n) ELSE NatText(v.n)
    [] v.t = "lit" -> (CASE v.s = <<"true">> -> <<"t", "r", "u", "e">>
                         [] v.s = <<"false">> -> <<"f", "a", "l", "s", "e">>
                         [] OTHER -> <<"n", "u", "l", "l">>)
    [] v.t \in {"obj", "arr"} ->
         LET open  == IF v.t = "obj" THEN "{" ELSE "["
             close == IF v.t = "obj" THEN "}" ELSE "]"
         IN  IF v.c = <<>> THEN <<open, close>>
             ELSE <<open, "\n">> \o StringifyAll(v, 1, depth + 1)
                    \o <<"\n">> \o Indent(depth) \o <<close>>
    [] OTHER -> <<"u", "n", "d", "e", "f", "i", "n", "e", "d">>

\* The members (or elements) of v from the i-th on, at nesting depth.
StringifyAll(v, i, depth) ==
  LET m    == v.c[i]
      key  == IF v.t = "obj" THEN <<"\"">> \o Escaped(m.k) \o <<"\"", ":", " ">> ELSE <<>>
      this == Indent(depth) \o key \o Stringify(m.v, depth)
  IN  IF i = Len(v.c) THEN this
      ELSE this \o <<",", "\n">> \o StringifyAll(v, i + 1, depth)

\* ------------------------------------------------------------ vocabulary

Q == "\""

\* The JSON text of the string w.
Str(w) == <<Q>> \o w \o <<Q>>

\* The JSON text of an object with one member.
Obj1(k, v) == <<"{">> \o Str(k) \o <<":">> \o v \o <<"}">>

W_a == <<"a">>

T_ObjNum == Obj1(W_a, <<"1">>)

T_Arr == <<"[", "1", ",", " ", "2", "]">>

T_StrParen == Str(<<"(", "x", ")">>)

\* A string value that holds a fence marker.
T_ObjFence == Obj1(W_a, Str(Fence))

JsonTexts == {T_ObjNum, T_Arr, T_StrParen, T_ObjFence}

Prefixes ==
  { <<>>, Fence \o <<"\n">>, FenceJson \o <<"\n">>, <<"(">>,
    <<" ", "(">> \o Fence \o <<"J", "S", "O", "N", "\n">> }

Suffixes == { <<>>, <<"\n">> \o Fence, <<")">>, <<"\n">> \o Fence \o <<")", "\n">> }

\* Valid JSON wrapped in code fences, stray parentheses and white space.
WrappedInputs == { pre \o j \o suf : pre \in Prefixes, j \in JsonTexts, suf \in Suffixes }

T_Truncated == <<"{", Q, "a", Q, ":", "1">>

T_Prose == <<"H", "e", "r", "e", ":", " ">> \o T_ObjNum

MalformedTexts == { <<>>, T_Truncated, T_Prose }

RecoverInputs == WrappedInputs \cup MalformedTexts

RepairResponses == { T_ObjNum, FenceJson \o <<"\n">> \o T_Arr \o <<"\n">> \o Fence, T_Truncated, <<>> }

W_tasks == <<"t", "a", "s", "k", "s">>

W_taskId == <<"t", "a", "s", "k", "I", "d">>

W_lcat == <<"l", "c", "a", "t">>

W_hours == <<"h", "o", "u", "r", "s">>

W_mathRationale ==
  <<"m", "a", "t", "h", "R", "a", "t", "i", "o", "n", "a", "l", "e">>

W_basis == <<"b", "a", "s", "i", "s">>

\* The JSON text {"tasks":[line, ...]}.
TasksText(lines) == Obj1(W_tasks, <<"[">> \o lines \o <<"]">>)

T_LineNoHours ==
  <<"{">> \o Str(W_taskId) \o <<":">> \o Str(<<"1">>) \o <<",">>
          \o Str(W_lcat) \o <<":">> \o Str(<<"P", "M">>) \o <<"}">>

T_Line ==
  SubSeq(T_LineNoHours, 1, Len(T_LineNoHours) - 1)
    \o <<",">> \o Str(W_hours) \o <<":", "5", "}">>

T_Plan == TasksText(T_Line)

T_PlanNoHours == TasksText(T_LineNoHours)

T_NoTasks == <<"{", "}">>

\* What a reasoning call may answer: free text, or nothing.
ReasonResponses == { <<"r">>, <<>> }

\* What an extraction call may answer.
ExtractResponses ==
  { T_Plan, FenceJson \o <<"\n">> \o T_Plan \o <<"\n">> \o Fence, T_PlanNoHours,
    T_NoTasks, T_Truncated }

\* What a repair call of the pipeline may answer.
GenRepairResponses == { T_Plan, T_NoTasks, T_Truncated }

\* Every text the model hands to sanitizePotentialFormatting.
Texts ==
  RecoverInputs \cup RepairResponses \cup ExtractResponses \cup GenRepairResponses

\* sanitizePotentialFormatting and JSON.parse, computed once per text.
SanitizeMemo == [t \in Texts |-> sanitizePotentialFormatting(t)]

ParseMemo == [r \in { SanitizeMemo[t] : t \in Texts } |-> JsonParse(r)]

\* ---------------------------------------------------- parseJsonWithRetry

\* Largest maxRetries argument tried.
MaxRetriesBound == 2

NoError == [name |-> "none", message |-> "", code |-> "none"]

\* JSON.parse's SyntaxError; its message is a function of the text parsed.
SyntaxErrorOf(raw) ==
  [name |-> "SyntaxError", message |-> "Unexpected token", code |-> "none", text |-> raw]

\* A rejected openai.chat.completions.create.
ApiError(code) == [name |-> "APIError", message |-> "request failed", code |-> code]

MaxRetriesExceeded ==
  [name |-> "Error", message |-> "Failed to parse JSON (max retries exceeded)", code |-> "none"]

ParseUnexpectedly ==
  [name |-> "Error", message |-> "Failed to parse JSON unexpectedly.", code |-> "none"]

\* A conversation context: the system instruction and the user text.
NoMessages == [system |-> "none", user |-> <<>>]

\* The system instruction of a repair call: it quotes the parse error and the
\* text that did not parse.
RepairInstruction(err, raw) == [role |-> "system", err |-> err, raw |-> raw]

RepairRequest_InstructionTwice(originalMessages, err, raw) ==
  [context |-> originalMessages,
   added |-> << RepairInstruction(err, raw), RepairInstruction(err, raw) >>]

\* The messages of a repair call: `...originalMessages` and what follows
\* them.
RepairRequest(originalMessages, err, raw) ==
  [context |-> originalMessages, added |-> << RepairInstruction(err, raw) >>]

NoRequest == [context |-> NoMessages, added |-> <<>>]

\* A console line: level, the fixed text, and the error and text printed.
ConsoleLine(level, what, err, raw) == [level |-> level, what |-> what, err |-> err, raw |-> raw]

\* parseJsonWithRetry before it is called.
PjIdle ==
  [ pc |-> "idle", messages |-> NoMessages, content |-> <<>>, maxRetries |-> 0,
    attempt |-> 0, raw |-> <<>>, responses |-> <<>>, calls |-> 0,
    request |-> NoRequest, result |-> NoValue, error |-> NoError, out |-> <<>> ]

BudgetExceeded_OffByOne(attempt, maxRetries) == attempt > maxRetries + 1

\* `attempt > maxRetries` after the increment.
BudgetExceeded(attempt, maxRetries) == attempt > maxRetries

GiveUpLines_NoRaw(err, raw) ==
  << ConsoleLine("error", "Error parsing JSON, max retries exceeded:", err, <<>>) >>

\* The console lines of giving up.
GiveUpLines(err, raw) ==
  << ConsoleLine("error", "Error parsing JSON, max retries exceeded:", err, <<>>),
     ConsoleLine("error", "Last raw content was:", NoError, raw) >>

\* The error raised on giving up.
GiveUpError(err, raw) == MaxRetriesExceeded

\* The while loop from its head to the next await, return or throw.  out
\* collects the console lines written.
PjLoop(st) ==
  IF st.attempt <= st.maxRetries THEN
    LET r == ParseMemo[st.raw]
    IN  IF r.ok THEN [st EXCEPT !.pc = "returned", !.result = r.val]
        ELSE
          LET err == SyntaxErrorOf(st.raw)
              a   == st.attempt + 1
          IN  IF BudgetExceeded(a, st.maxRetries)
              THEN [st EXCEPT !.pc = "thrown", !.attempt = a,
                              !.error = GiveUpError(err, st.raw),
                              !.out = st.out \o GiveUpLines(err, st.raw)]
              ELSE [st EXCEPT !.pc = "repair", !.attempt = a,
                              !.calls = st.calls + 1,
                              !.request = RepairRequest(st.messages, err, st.raw),
                              !.out = Append(st.out,
                                        ConsoleLine("warn", "Parse attempt failed", NoError, <<>>))]
  ELSE [st EXCEPT !.pc = "thrown", !.error = ParseUnexpectedly]

\* The call parseJsonWithRetry(openaiClient, originalMessages, content, maxRetries).
PjEnter(originalMessages, content, maxRetries) ==
  PjLoop([PjIdle EXCEPT !.messages = originalMessages, !.content = content,
                        !.maxRetries = maxRetries, !.attempt = 0,
                        !.raw = SanitizeMemo[content]])

PjRepairReturned_IgnoresResponse(st, resp) ==
  LET raw == SanitizeMemo[st.content]
  IN  PjLoop([st EXCEPT !.raw = raw, !.responses = Append(st.responses, resp),
                        !.request = NoRequest, !.out = <<ConsoleLine("log", "REPAIR ATTEMPT RAW OUTPUT", NoError, raw)>>])

\* The repair call returns: resp is choices[0]?.message?.content || "" (the
\* empty text also stands for a missing content).
PjRepairReturned(st, resp) ==
  LET raw == SanitizeMemo[resp]
  IN  PjLoop([st EXCEPT !.raw = raw, !.responses = Append(st.responses, resp),
                        !.request = NoRequest, !.out = <<ConsoleLine("log", "REPAIR ATTEMPT RAW OUTPUT", NoError, raw)>>])

\* The repair call rejects: nothing catches it inside parseJsonWithRetry.
PjRepairRaised(st, err) ==
  [st EXCEPT !.pc = "thrown", !.error = err, !.request = NoRequest, !.out = <<>>]

\* -------------------------------------------------- generateStaffingPlan

\* parseJsonWithRetry's default maxRetries, which generateStaffingPlan uses.
DefaultMaxRetries == 2

Stages == 1..3

NoPlan == [returned |-> FALSE, step1Tasks |-> NoValue, step2TasksWithLCATs |-> NoValue,
           finalStaffingPlan |-> NoValue]

\* generateStaffingPlan before it is called.  calls lists the model calls
\* issued and received what each answered, in order; embedded is the JSON
\* text written into the stage's reasoning request.
GenIdle ==
  [ pc |-> "idle", stage |-> 0, approach |-> "none", totalFTE |-> 0,
    prompt |-> NoMessages, embedded |-> <<>>, tasksStep1 |-> NoValue,
    tasksStep2 |-> NoValue, finalHours |-> NoValue, calls |-> <<>>, received |-> <<>>,
    result |-> NoPlan, error |-> NoError ]

ModelCall(kind, stage) == [kind |-> kind, stage |-> stage]

Answer(text, raised) == [text |-> text, raised |-> raised]

IssueReason_EmbedsStep1(g, stage) ==
  [g EXCEPT !.pc = "reason", !.stage = stage,
            !.embedded = IF stage = 1 THEN <<>> ELSE Stringify(g.tasksStep1, 0),
            !.calls = Append(g.calls, ModelCall("reason", stage))]

\* The (A) reasoning call of a stage is issued: stage 1 embeds the RFP text,
\* stages 2 and 3 `JSON.stringify(tasksStepN, null, 2)` of the stage before.
IssueReason(g, stage) ==
  [g EXCEPT !.pc = "reason", !.stage = stage,
            !.embedded = CASE stage = 2 -> Stringify(g.tasksStep1, 0)
                           [] stage = 3 -> Stringify(g.tasksStep2, 0)
                           [] OTHER -> <<>>,
            !.calls = Append(g.calls, ModelCall("reason", stage))]

\* The final return of generateStaffingPlan.
ReturnPlan(g) ==
  [g EXCEPT !.pc = "done",
            !.result = [returned |-> TRUE, step1Tasks |-> g.tasksStep1,
                        step2TasksWithLCATs |-> g.tasksStep2,
                        finalStaffingPlan |-> g.finalHours]]

Propagate_PartialPlan(g, err) == ReturnPlan(g)

\* An awaited call or parseJsonWithRetry throws: generateStaffingPlan has no
\* try, so the rejection is its own.
Propagate(g, err) == [g EXCEPT !.pc = "failed", !.error = err]

StageRecovered_NotAwaited(st) == st.pc \in {"returned", "repair"}

\* `await parseJsonWithRetry(...)` yields a value.
StageRecovered(st) == st.pc = "returned"

\* generateStaffingPlan after a step of the stage's parseJsonWithRetry (st).
GenAfterParse(g, st) ==
  IF StageRecovered(st) THEN
    LET h == CASE g.stage = 1 -> [g EXCEPT !.tasksStep1 = st.result]
               [] g.stage = 2 -> [g EXCEPT !.tasksStep2 = st.result]
               [] g.stage = 3 -> [g EXCEPT !.finalHours = st.result]
    IN  IF g.stage < 3 THEN IssueReason(h, g.stage + 1) ELSE ReturnPlan(h)
  ELSE IF st.pc = "thrown" THEN Propagate(g, st.error)
  ELSE [g EXCEPT !.pc = "repair", !.calls = Append(g.calls, ModelCall("repair", g.stage))]

\* --------------------------------------------------------- getChatResponse

Marker == <<"P", "L", "A", "N", "_", "U", "P", "D", "A", "T", "E", ":">>

\* String.prototype.indexOf from position i: the first position of pat at or
\* after i, 0 when there is none.
IndexOf(s, pat, i) == FirstMatch(s, pat, i, FALSE)

\* String.prototype.includes
Includes(s, pat) == IndexOf(s, pat, 1) # 0

\* s.split(pat)[1] for a text that includes pat: what stands between the
\* first pat and the next one (or the end).
SplitSecond(s, pat) ==
  LET rest == From(s, IndexOf(s, pat, 1) + Len(pat))
      next == IndexOf(rest, pat, 1)
  IN  IF next = 0 THEN rest ELSE SubSeq(rest, 1, next - 1)

\* bracketCount after the iteration of the for loop at position i.
BracketCount(s, i) ==
  Cardinality({ j \in 1..i : s[j] = "{" }) - Cardinality({ j \in 1..i : s[j] = "}" })

\* The for loop over updatePart: jsonEndIndex, the length of the prefix that
\* ends at the first } bringing bracketCount to zero (0 when none does).
JsonEndIndex(s) ==
  LET ends == { i \in 1..Len(s) : s[i] = "}" /\ BracketCount(s, i) = 0 }
  IN  IF ends = {} THEN 0 ELSE CHOOSE i \in ends : \A e \in ends : i <= e

\* updatePart, jsonStr and explanation of a reply that includes the marker.
ExtractUpdate(content) ==
  LET updatePart   == Trim(SplitSecond(content, Marker))
      jsonEndIndex == JsonEndIndex(updatePart)
  IN  [ jsonStr     |-> SubSeq(updatePart, 1, jsonEndIndex),
        explanation |-> Trim(From(updatePart, jsonEndIndex + 1)) ]

TypeErr == [name |-> "TypeError", message |-> "Cannot read properties", code |-> "none"]

MissingTasks ==
  [name |-> "Error", message |-> "Invalid update format - missing tasks array", code |-> "none"]

InvalidTask == [name |-> "Error", message |-> "Invalid task format at index", code |-> "none"]

TaskRejected_HoursUnchecked(task) ==
  \/ ~Truthy(Get(task, W_taskId))
  \/ ~Truthy(Get(task, W_lcat))

\* `!task.taskId || !task.lcat || typeof task.hours !== 'number'`
TaskRejected(task) ==
  \/ ~Truthy(Get(task, W_taskId))
  \/ ~Truthy(Get(task, W_lcat))
  \/ Get(task, W_hours).t # "num"

\* The two checks on updateData: NoError, or the error they throw (that of
\* the first offending line).
ValidateUpdate(updateData) ==
  LET tasks == Get(updateData, W_tasks)
  IN  IF IsNullish(updateData) THEN TypeErr
      ELSE IF ~Truthy(tasks) \/ tasks.t # "arr" THEN MissingTasks
      ELSE LET bad == { i \in 1..Len(tasks.c) :
                          IsNullish(Items(tasks)[i]) \/ TaskRejected(Items(tasks)[i]) }
           IN  IF bad = {} THEN NoError
               ELSE IF IsNullish(Items(tasks)[CHOOSE i \in bad : \A j \in bad : i <= j])
               THEN TypeErr ELSE InvalidTask

\* {...obj, key: val}: val replaces the member of that name, or is added
\* last; spreading null or undefined adds nothing.
SpreadWith_OnlyKey(obj, key, val) == ObjV(<< [k |-> key, v |-> val] >>)

\* `{...obj, key: val}`: the members of obj in their order, key replaced in
\* place or added last.
SpreadWith(obj, key, val) ==
  LET ms == IF obj.t = "obj" THEN obj.c ELSE <<>>
      at == { i \in 1..Len(ms) : ms[i].k = key }
  IN  IF at = {} THEN ObjV(Append(ms, [k |-> key, v |-> val]))
      ELSE ObjV([i \in 1..Len(ms) |-> IF i \in at THEN [k |-> key, v |-> val] ELSE ms[i]])

W_finalStaffingPlan ==
  <<"f", "i", "n", "a", "l", "S", "t", "a", "f", "f", "i", "n", "g", "P", "l", "a", "n">>

\* A fixed sentence of the code is written as a text of one element.
SorryMessage == <<"I'm sorry, I couldn't generate a response.">>

UpdatedMessage == <<"Plan updated successfully">>

ClarifyMessage == <<"I understood your request to update the plan, but I need you to be more specific">>

TooLongMessage == <<"I apologize, but the plan and conversation history are too long">>

\* The object getChatResponse resolves with: keys lists its properties.
Response(keys, message, updatedPlan, error) ==
  [keys |-> keys, message |-> message, updatedPlan |-> updatedPlan, error |-> error]

NoResponse == Response({}, <<>>, Undefined, "none")

CatchUpdateFailure_Rethrown(e) ==
  [ thrown   |-> e,
    response |-> NoResponse,
    out      |-> << ConsoleLine("error", "Failed to parse plan update:", e, <<>>) >> ]

\* The catch of the inner try: whatever the update block throws becomes a
\* soft failure.
CatchUpdateFailure(e) ==
  [ thrown   |-> NoError,
    response |-> Response({"message", "error"}, ClarifyMessage, Undefined,
                          "Failed to parse plan update"),
    out      |-> << ConsoleLine("error", "Failed to parse plan update:", e, <<>>),
                    ConsoleLine("error", "Raw content:", NoError, <<>>) >> ]

MergeUpdate_KeepsPrior(planData, updateData) ==
  LET prior == OptGet(OptGet(planData, W_finalStaffingPlan), W_tasks)
      kept  == IF prior.t = "arr" THEN Items(prior) ELSE <<>>
  IN  SpreadWith(planData, W_finalStaffingPlan,
                 ObjV(<< [ k |-> W_tasks,
                           v |-> ArrV(kept \o Items(Get(updateData, W_tasks))) ] >>))

\* updatedPlan: `{...planData, finalStaffingPlan: {tasks: updateData.tasks}}`
MergeUpdate(planData, updateData) ==
  SpreadWith(planData, W_finalStaffingPlan,
             ObjV(<< [k |-> W_tasks, v |-> Get(updateData, W_tasks)] >>))

\* The block under `if (content.includes('PLAN_UPDATE:'))`.
ApplyUpdate(planData, content) ==
  LET x      == ExtractUpdate(content)
      parsed == JsonParse(x.jsonStr)
      log    == << ConsoleLine("log", "Extracted JSON:", NoError, x.jsonStr) >>
      fault  == IF ~parsed.ok THEN SyntaxErrorOf(x.jsonStr) ELSE ValidateUpdate(parsed.val)
  IN  IF fault # NoError
      THEN LET c == CatchUpdateFailure(fault)
           IN  [c EXCEPT !.out = log \o c.out]
      ELSE [ thrown   |-> NoError,
             response |->
               Response({"message", "updatedPlan"},
                        IF x.explanation # <<>> THEN x.explanation ELSE UpdatedMessage,
                        MergeUpdate(planData, parsed.val),
                        "none"),
             out      |-> log ]

PlainAnswer_AsUpdate(content) == Response({"message", "updatedPlan"}, content, Null, "none")

\* `return { message: content }`
PlainAnswer(content) == Response({"message"}, content, Undefined, "none")

\* getChatResponse from the answer of the model call to its return; content
\* is choices[0]?.message?.content (the empty text also stands for a missing
\* content).
ChatAnswered(planData, content) ==
  IF content = <<>>
  THEN [thrown |-> NoError, response |-> Response({"message"}, SorryMessage, Undefined, "none"),
        out |-> <<>>]
  ELSE IF Includes(content, Marker) THEN ApplyUpdate(planData, content)
  ELSE [thrown |-> NoError, response |-> PlainAnswer(content), out |-> <<>>]

ChatCallFailed_AlwaysSoft(error) ==
  [thrown |-> NoError,
   response |-> Response({"message", "error"}, TooLongMessage, Undefined, "Message too long"),
   out |-> << ConsoleLine("error", "Error getting chat response:", error, <<>>) >>]

\* The outer catch, for an error of the model call.
ChatCallFailed(error) ==
  IF error.code = "context_length_exceeded"
  THEN [thrown |-> NoError,
        response |-> Response({"message", "error"}, TooLongMessage, Undefined, "Message too long"),
        out |-> << ConsoleLine("error", "Error getting chat response:", error, <<>>) >>]
  ELSE [thrown |-> [name |-> "Error", message |-> "Failed to get AI response: " \o error.message,
                    code |-> "none"],
        response |-> NoResponse,
        out |-> << ConsoleLine("error", "Error getting chat response:", error, <<>>) >>]

\* The properties the snapshot keeps of every line, in the order written.
SnapshotKeys == <<W_taskId, W_lcat, W_hours, W_mathRationale, W_basis>>

\* The object literal of the map callback as JSON.stringify renders it: a
\* property whose value is undefined is left out.
RECURSIVE DefinedMembers(_, _, _)
DefinedMembers(task, keys, acc) ==
  IF keys = <<>> THEN acc
  ELSE LET val == Get(task, Head(keys))
       IN  DefinedMembers(task, Tail(keys),
                          IF val = Undefined THEN acc
                          ELSE Append(acc, [k |-> Head(keys), v |-> val]))

\* trimmedPlanData: null when the plan has no (truthy) tasks; calling map on
\* what is not an array, or reading a property of a null line, is a
\* TypeError (ok = FALSE).
TrimPlan(planData) ==
  LET tasks == OptGet(OptGet(planData, W_finalStaffingPlan), W_tasks)
  IN  IF ~Truthy(tasks) THEN [ok |-> TRUE, val |-> Null]
      ELSE IF tasks.t # "arr" THEN [ok |-> FALSE, val |-> Null]
      ELSE IF \E i \in 1..Len(tasks.c) : IsNullish(Items(tasks)[i])
      THEN [ok |-> FALSE, val |-> Null]
      ELSE [ ok  |-> TRUE,
             val |-> ObjV(<< [ k |-> W_finalStaffingPlan,
                               v |-> ObjV(<< [ k |-> W_tasks,
                                               v |-> ArrV([ i \in 1..Len(tasks.c) |->
                                                             ObjV(DefinedMembers(Items(tasks)[i], SnapshotKeys, <<>>)) ]) ] >>) ] >>) ]

\* rfpText.substring(0, 1000)
RfpExcerptLen == 1000

\* history.slice(-5)
HistoryWindow == 5

Turn(role, content) == [role |-> role, content |-> content]

LastTurns_FirstN(history, n) ==
  IF Len(history) <= n THEN history ELSE SubSeq(history, 1, n)

\* history.slice(-n)
LastTurns(history, n) ==
  IF Len(history) <= n THEN history ELSE SubSeq(history, Len(history) - n + 1, Len(history))

\* .filter(msg => msg.content != null && msg.content.trim() !== "")
RECURSIVE NonBlank(_)
NonBlank(turns) ==
  IF turns = <<>> THEN <<>>
  ELSE (IF Trim(Head(turns).content) # <<>> THEN <<Head(turns)>> ELSE <<>>)
         \o NonBlank(Tail(turns))

\* The messages of the model call: the system message (its two variable
\* parts: the excerpt of the RFP text and the plan snapshot; an empty RFP
\* text and a null snapshot add nothing), the last turns of the history and
\* the user's message, blank ones dropped.
ChatRequest(message, trimmedPlanData, rfpText, history) ==
  [ system |-> [ rfp  |-> SubSeq(rfpText, 1, IF Len(rfpText) < RfpExcerptLen
                                              THEN Len(rfpText) ELSE RfpExcerptLen),
                 plan |-> trimmedPlanData ],
    turns  |-> NonBlank(LastTurns(history, HistoryWindow) \o <<Turn("user", message)>>) ]

NoChatRequest == [system |-> [rfp |-> <<>>, plan |-> Undefined], turns |-> <<>>]

\* getChatResponse before it is called.
ChatIdle ==
  [ pc |-> "idle", message |-> <<>>, planData |-> Undefined, history |-> <<>>,
    request |-> NoChatRequest, replied |-> FALSE,
    content |-> <<>>, raised |-> NoError, response |-> NoResponse, error |-> NoError ]

\* ------------------------------------------------------- inputs of the chat

T_LineBrace ==
  <<"{">> \o Str(W_taskId) \o <<":">> \o Str(<<"}">>) \o <<",">>
          \o Str(W_lcat) \o <<":">> \o Str(<<"P", "M">>) \o <<",">>
          \o Str(W_hours) \o <<":", "5", "}">>

\* {"tasks":[{"a":1},{"b":{"c":2}}]}
T_Nested ==
  TasksText(Obj1(<<"a">>, <<"1">>) \o <<",">> \o Obj1(<<"b">>, Obj1(<<"c">>, <<"2">>)))

\* The JSON objects a reply may carry after the marker.
UpdateObjects ==
  { T_Plan, T_PlanNoHours, T_NoTasks, T_Nested, TasksText(<<"n", "u", "l", "l">>),
    TasksText(T_LineBrace) }

\* What may follow the JSON object.
Explanations ==
  { <<>>, <<"\n", "o", "k">>, <<"\n", "a", " ", "}", " ", "b", "\n", "{", "c", "\n">>,
    <<" ", "s", "e", "e", " ">> \o Marker \o <<"x">> }

\* Replies made of the marker, a JSON object and an explanation.
UpdateReplies ==
  { Marker \o sep \o j \o e : sep \in {<<>>, <<"\n">>}, j \in UpdateObjects, e \in Explanations }

\* The JSON text of a line {"taskId":id,"lcat":lcat,"hours":hours}.
LineText(id, lcat, hours) ==
  <<"{">> \o Str(W_taskId) \o <<":">> \o id \o <<",">>
          \o Str(W_lcat) \o <<":">> \o lcat \o <<",">>
          \o Str(W_hours) \o <<":">> \o hours \o <<"}">>

T_PM == Str(<<"P", "M">>)

\* {"taskId":"2","lcat":"PM","hours":8}
T_Line2 == LineText(Str(<<"2">>), T_PM, <<"8">>)

\* {"taskId":"3","lcat":"PM","hours":5,"mathRationale":"5x1","basis":"b"}
T_LineFull ==
  SubSeq(LineText(Str(<<"3">>), T_PM, <<"5">>), 1, Len(LineText(Str(<<"3">>), T_PM, <<"5">>)) - 1)
    \o <<",">> \o Str(W_mathRationale) \o <<":">> \o Str(<<"5", "x", "1">>)
    \o <<",">> \o Str(W_basis) \o <<":">> \o Str(<<"b">>) \o <<"}">>

\* {"tasks":[line 1, line 1 without hours]}
T_PlanSecondNoHours == TasksText(T_Line \o <<",">> \o T_LineNoHours)

\* Further JSON objects a reply may carry: a line without hours after a
\* whole one, a numeric, an empty and a zero taskId, an empty lcat, hours
\* written as a string, two lines, no line, negative hours, the same line
\* twice, a line with all five properties.
MoreUpdateObjects ==
  { T_PlanSecondNoHours,
    TasksText(LineText(<<"7">>, T_PM, <<"5">>)),
    TasksText(LineText(Str(<<>>), T_PM, <<"5">>)),
    TasksText(LineText(<<"0">>, T_PM, <<"5">>)),
    TasksText(LineText(Str(<<"1">>), Str(<<>>), <<"5">>)),
    TasksText(LineText(Str(<<"1">>), T_PM, Str(<<"5">>))),
    TasksText(T_Line2 \o <<",">> \o T_Line),
    TasksText(T_Line2),
    TasksText(<<>>),
    TasksText(LineText(Str(<<"1">>), T_PM, <<"-", "5">>)),
    TasksText(T_Line \o <<",">> \o T_Line),
    TasksText(T_LineFull) }

MoreUpdateReplies ==
  { Marker \o <<"\n">> \o j \o <<"\n", "o", "k">> : j \in MoreUpdateObjects }

\* Replies with the marker and no JSON object after it.
BrokenReplies == { Marker \o <<"\n">> \o T_Truncated, Marker \o <<" ", "o", "k">> }

\* Replies without the marker; the empty one stands for a missing content.
PlainReplies == { <<>>, <<"L", "C", "A", "T", "s", "?">>, T_Plan, <<"P", "L", "A", "N", ":", " ", "{", "}">> }

ChatReplies == UpdateReplies \cup MoreUpdateReplies \cup BrokenReplies \cup PlainReplies

\* {"id":"p","finalStaffingPlan":{"tasks":[line]}}
PlanData1 ==
  JsonParse(<<"{">> \o Str(<<"i", "d">>) \o <<":">> \o Str(<<"p">>) \o <<",">>
            \o Str(W_finalStaffingPlan) \o <<":">> \o T_Plan \o <<"}">>).val

\* {"id":"q"}: a plan record without a final staffing plan.
PlanData0 == JsonParse(Obj1(<<"i", "d">>, Str(<<"q">>))).val

\* {"finalStaffingPlan":{"tasks":"x"}}: tasks that are not an array.
PlanDataBad == JsonParse(Obj1(W_finalStaffingPlan, Obj1(W_tasks, Str(<<"x">>)))).val

\* {"id":"p","rfpText":"R","step1Tasks":{},"finalStaffingPlan":{"tasks":[...]},
\* "user_id":"u"}: a plan with the fields a plan record carries.
PlanDataFull ==
  JsonParse(<<"{">> \o Str(<<"i", "d">>) \o <<":">> \o Str(<<"p">>) \o <<",">>
            \o Str(<<"r", "f", "p", "T", "e", "x", "t">>) \o <<":">> \o Str(<<"R">>) \o <<",">>
            \o Str(<<"s", "t", "e", "p", "1", "T", "a", "s", "k", "s">>) \o <<":">> \o T_NoTasks \o <<",">>
            \o Str(W_finalStaffingPlan) \o <<":">> \o T_Plan \o <<",">>
            \o Str(<<"u", "s", "e", "r", "_", "i", "d">>) \o <<":">> \o Str(<<"u">>) \o <<"}">>).val

W_final_staffing_plan ==
  <<"f", "i", "n", "a", "l", "_", "s", "t", "a", "f", "f", "i", "n", "g", "_", "p", "l", "a", "n">>

\* {"id":"p","updated_at":0,"user_id":"u","rfp_text":"R","step1_tasks":{},
\* "final_staffing_plan":{"tasks":[...]}}: the plan as the page holds it and
\* posts it to /chat, with the column names of the stored record.
PlanDataRow ==
  JsonParse(<<"{">> \o Str(<<"i", "d">>) \o <<":">> \o Str(<<"p">>) \o <<",">>
            \o Str(<<"u", "p", "d", "a", "t", "e", "d", "_", "a", "t">>) \o <<":", "0", ",">>
            \o Str(<<"u", "s", "e", "r", "_", "i", "d">>) \o <<":">> \o Str(<<"u">>) \o <<",">>
            \o Str(<<"r", "f", "p", "_", "t", "e", "x", "t">>) \o <<":">> \o Str(<<"R">>) \o <<",">>
            \o Str(<<"s", "t", "e", "p", "1", "_", "t", "a", "s", "k", "s">>) \o <<":">> \o T_NoTasks \o <<",">>
            \o Str(W_final_staffing_plan) \o <<":">> \o T_Plan \o <<"}">>).val

PlanInputs == { PlanData1, PlanData0, PlanDataBad, PlanDataFull, PlanDataRow, Undefined }

RfpInputs == { <<>>, <<"R", "F", "P">> }

MaxHistory == 6

\* A history of n turns, user and assistant alternating: the i-th says "m"
\* and i, the third is blank.
HistoryOf(n) ==
  [ i \in 1..n |-> Turn(IF i % 2 = 1 THEN "user" ELSE "assistant",
                        IF i = 3 THEN <<" ">> ELSE <<"m">> \o NatText(i)) ]

HistoryInputs == { HistoryOf(n) : n \in {0, 2, MaxHistory} }

MessageInputs == { <<"h", "i">>, <<" ">> }

\* ---------------------------------------------------- extractTextFromFile

PdfType == "application/pdf"

DocxType == "application/vnd.openxmlformats-officedocument.wordprocessingml.document"

\* new Error(message)
ErrorOf(message) == [name |-> "Error", message |-> message, code |-> "none"]

\* The file handed in: whether it has a buffer, the buffer's length, and the
\* MIME type.
FileOf(hasBuffer, length, mimetype) ==
  [hasBuffer |-> hasBuffer, length |-> length, mimetype |-> mimetype]

NoFile == FileOf(FALSE, 0, "none")

\* extractTextFromFile before it is called.  invoked lists the extractors
\* called.
ExtractIdle ==
  [ pc |-> "idle", file |-> NoFile, invoked |-> <<>>, result |-> <<>>,
    error |-> NoError, out |-> <<>> ]

\* The outer catch: it logs the error and throws it again under a new
\* message.
ExtractFailed(st, message) ==
  [st EXCEPT !.pc = "thrown",
             !.error = ErrorOf("Failed to process file: " \o message),
             !.out = st.out \o << ConsoleLine("error", "Error extracting text from file:",
                                              ErrorOf(message), <<>>) >>]

BufferRejected_MissingOnly(file) == ~file.hasBuffer

\* `!file.buffer || file.buffer.length === 0`
BufferRejected(file) == ~file.hasBuffer \/ file.length = 0

\* extractTextFromFile from its call to the extractor call, or to its throw.
ExtractEnter(file) ==
  LET st == [ExtractIdle EXCEPT !.file = file,
                                !.out = << ConsoleLine("log", "Processing file:", NoError, <<>>) >>]
  IN  IF BufferRejected(file) THEN ExtractFailed(st, "Empty file buffer received")
      ELSE IF file.mimetype = PdfType
      THEN [st EXCEPT !.pc = "pdf", !.invoked = Append(st.invoked, "pdf-parse")]
      ELSE IF file.mimetype = DocxType
      THEN [st EXCEPT !.pc = "docx", !.invoked = Append(st.invoked, "mammoth")]
      ELSE ExtractFailed(st, "Unsupported file type")

\* The catch around the PDF extractor.
PdfFailed(st, message) ==
  ExtractFailed([st EXCEPT !.out = << ConsoleLine("error", "PDF parsing error:",
                                                  ErrorOf(message), <<>>) >>],
                "PDF parsing failed: " \o message)

\* The PDF extractor resolves with pdfData: nothing, or an object with text.
PdfReturned(st, given, text) ==
  IF ~given \/ text = <<>> THEN PdfFailed(st, "Failed to extract text from PDF")
  ELSE [st EXCEPT !.pc = "returned", !.result = Trim(text),
                  !.out = << ConsoleLine("log", "PDF parsed successfully, text length:",
                                         NoError, <<>>) >>]

\* The catch around the Word extractor.
DocxFailed(st, message) ==
  ExtractFailed([st EXCEPT !.out = << ConsoleLine("error", "Word document parsing error:",
                                                  ErrorOf(message), <<>>) >>],
                "Word document parsing failed: " \o message)

\* The Word extractor resolves with result.value.
DocxReturned(st, value) ==
  [st EXCEPT !.pc = "returned", !.result = Trim(value),
             !.out = << ConsoleLine("log", "Word document parsed successfully, text length:",
                                    NoError, <<>>) >>]

\* The files tried: no buffer, an empty one, one of three bytes; a PDF, a
\* Word document, plain text, no type.
FileInputs ==
  { FileOf(b, IF b THEN n ELSE 0, m) :
      b \in BOOLEAN, n \in {0, 3}, m \in {PdfType, DocxType, "text/plain", ""} }

\* What an extractor may resolve with.
ExtractedTexts == { <<>>, <<" ", "R", "F", "P", "\n">>, <<"R">> }

\* ------------------------------------------------------------ HTTP routes

\* A request: the route, whether its body can be read (req.json() or
\* req.formData() resolves), the fields the body holds, and the uploaded
\* file.  A field held has the one value the route action gives it.
HttpRequest(route, parsable, present, file) ==
  [route |-> route, parsable |-> parsable, present |-> present, file |-> file]

HttpIdle ==
  [ pc |-> "idle", request |-> HttpRequest("none", FALSE, {}, NoFile), status |-> 0, kind |-> "none", error |-> "" ]

\* NextResponse.json(body, {status}): kind names the body, error is the
\* text of an {error} body.
Respond(h, status, kind, error) ==
  [h EXCEPT !.pc = "responded", !.status = status, !.kind = kind, !.error = error]

\* The catch of a route: `error.message || fallback` under status 500.
RespondFailure(h, error, fallback) ==
  Respond(h, 500, "error", IF error.message = "" THEN fallback ELSE error.message)

\* req.json() or req.formData() rejected.
BodyError == [name |-> "SyntaxError", message |-> "Unexpected end of JSON input", code |-> "none"]

GenerateRequests ==
  { HttpRequest("generate-plan", p, f, NoFile) :
      p \in BOOLEAN, f \in SUBSET {"rfpText", "approach", "totalFTE"} }

ChatRequests ==
  { HttpRequest("chat", p, f, NoFile) :
      p \in BOOLEAN, f \in SUBSET {"message", "planData", "rfpText", "history"} }

\* The route wraps the uploaded File's bytes in a Buffer, so the file it
\* hands on always has one.
UploadRequests ==
  { HttpRequest("upload", p, f, file) :
      p \in BOOLEAN, f \in SUBSET {"file"}, file \in { x \in FileInputs : x.hasBuffer } }

\* ------------------------------------------------------------ the page

W_id == <<"i", "d">>

W_updated_at == <<"u", "p", "d", "a", "t", "e", "d", "_", "a", "t">>

\* Sends of one session, and requests in flight at once, that are followed.
MaxSends == 3

MaxFlights == 2

\* The component before its first effect ran: no plan, no messages.  stored
\* is the staffing_plans row of the store, flights the handleSendMessage
\* calls awaiting their /chat response, each with the values its closure
\* holds, clock the time new Date() tells, in ticks, data the
\* response data of the call that ended last.
PageIdle ==
  [ staffingPlan |-> Null, stored |-> PlanDataRow, messages |-> <<>>, isLoading |-> FALSE,
    flights |-> <<>>, sends |-> 0, clock |-> 0, alerts |-> 0, data |-> NoResponse ]

\* A handleSendMessage call awaiting its response.
Flight(message, staffingPlan, messages) ==
  [message |-> message, planData |-> staffingPlan, history |-> messages]

\* `if (!inputMessage.trim() || !staffingPlan) return;`
SendBlocked(p, inputMessage) == Trim(inputMessage) = <<>> \/ p.staffingPlan = Null

\* The Send button can be clicked: `disabled={isLoading || !staffingPlan}`.
ButtonEnabled(p) == ~p.isLoading /\ p.staffingPlan # Null

\* handleSendMessage from its call to the posted /chat request.
SendMessage(p, inputMessage) ==
  IF SendBlocked(p, inputMessage) THEN p
  ELSE [p EXCEPT !.messages = Append(p.messages, Turn("user", inputMessage)),
                 !.isLoading = TRUE,
                 !.sends = p.sends + 1,
                 !.flights = Append(p.flights, Flight(inputMessage, p.staffingPlan, p.messages))]

\* The sequence without its i-th element.
Without(seq, i) == SubSeq(seq, 1, i - 1) \o SubSeq(seq, i + 1, Len(seq))

Replaced_AlsoId(row, updatedPlan, now) ==
  SpreadWith(SpreadWith(SpreadWith(row, W_final_staffing_plan,
                                   Get(updatedPlan, W_finalStaffingPlan)),
                        W_updated_at, NumV(now)),
             W_id, NumV(now))

\* `{ final_staffing_plan: ..., updated_at: new Date().toISOString() }`
\* written over a plan record.
Replaced(row, updatedPlan, now) ==
  SpreadWith(SpreadWith(row, W_final_staffing_plan, Get(updatedPlan, W_finalStaffingPlan)),
             W_updated_at, NumV(now))

\* handleSendMessage after the /chat response data arrived: the assistant
\* message, then the update of the stored row (which may fail) and of the
\* plan in memory when the response holds an updatedPlan, then finally.
ResponseArrived(p, i, data, updateFails) ==
  LET f     == p.flights[i]
      q     == [p EXCEPT !.messages = Append(p.messages, Turn("assistant", data.message)),
                         !.flights = Without(p.flights, i),
                         !.isLoading = FALSE, !.data = data]
      now   == p.clock + 1
  IN  IF "updatedPlan" \notin data.keys THEN q
      ELSE IF updateFails THEN [q EXCEPT !.alerts = p.alerts + 1]
      ELSE [q EXCEPT !.clock = now,
                     !.stored = IF Get(p.stored, W_id) = Get(f.planData, W_id)
                                THEN Replaced(p.stored, data.updatedPlan, now)
                                ELSE p.stored,
                     !.staffingPlan = Replaced(p.staffingPlan, data.updatedPlan, now)]

\* axios.post rejected (a 400 or 500 answer): catch, then finally.
RequestFailed(p, i) ==
  [p EXCEPT !.flights = Without(p.flights, i), !.isLoading = FALSE, !.alerts = p.alerts + 1,
            !.data = NoResponse]

\* What is typed into the input field.
PageInputs == { <<"h", "i">>, <<" ">> }

\* What the model answers to a /chat request of the page.
PageReplies ==
  { <<"o", "k">>,
    Marker \o <<"\n">> \o TasksText(T_Line2) \o <<"\n", "o", "k">>,
    Marker \o <<"\n">> \o TasksText(T_Line2 \o <<",">> \o T_Line),
    Marker \o <<"\n">> \o T_Truncated }

\* ------------------------------------------------------- concurrent runs

\* The calls of generateStaffingPlan that are in progress at once.
Runs == 1..2

\* One call of generateStaffingPlan: its own locals (gen), the locals of the
\* parseJsonWithRetry call it awaits (pj), and the console lines it wrote.
RunIdle == [gen |-> GenIdle, pj |-> PjIdle, written |-> <<>>]

\* What the extraction and repair calls of concurrent runs may answer.
RunResponses == { T_Plan, T_Truncated }

\* The call is made: the text is logged and the stage-1 reasoning call issued.
RunStarted(approach, totalFTE) ==
  [ gen |-> IssueReason([GenIdle EXCEPT !.approach = approach, !.totalFTE = totalFTE], 1),
    pj |-> PjIdle,
    written |-> <<ConsoleLine("log", "TEXT BEING SENT TO LLM", NoError, <<>>)>> ]

\* The run's reasoning call answers.
ReasonAnswered(run, text) ==
  [run EXCEPT !.gen = [run.gen EXCEPT !.pc = "extract",
                                      !.prompt = [system |-> "parser", user |-> text],
                                      !.received = Append(run.gen.received, Answer(text, FALSE)),
                                      !.calls = Append(run.gen.calls, ModelCall("extract", run.gen.stage))],
              !.written = Append(run.written, ConsoleLine("log", "STEP RAW", NoError, text))]

\* The run's extraction call answers.
ExtractAnswered(run, text) ==
  LET st == PjEnter(run.gen.prompt, text, DefaultMaxRetries)
      g  == [run.gen EXCEPT !.received = Append(run.gen.received, Answer(text, FALSE))]
  IN  [ gen |-> GenAfterParse(g, st), pj |-> [st EXCEPT !.out = <<>>],
        written |-> Append(run.written, ConsoleLine("log", "STEP PARSER", NoError, text)) \o st.out ]

\* The repair call answers: locals are those of the parseJsonWithRetry call
\* that awaits it.
RepairAnswered(run, locals, text) ==
  LET st == PjRepairReturned(locals, text)
      g  == [run.gen EXCEPT !.received = Append(run.gen.received, Answer(text, FALSE))]
  IN  [ gen |-> GenAfterParse(g, st), pj |-> [st EXCEPT !.out = <<>>],
        written |-> run.written \o st.out ]

\* The run's pending model call rejects.
CallRejected(run, locals) ==
  LET err == ApiError("rate_limit_exceeded")
      g   == [run.gen EXCEPT !.received = Append(run.gen.received, Answer(<<>>, TRUE))]
  IN  IF run.gen.pc = "repair"
      THEN LET st == PjRepairRaised(locals, err)
           IN  [run EXCEPT !.gen = GenAfterParse(g, st), !.pj = st]
      ELSE [run EXCEPT !.gen = Propagate(g, err)]

PjOf_Shared(rs, r) == rs[1].pj

\* `let attempt`, `let raw` and the parameters of parseJsonWithRetry belong
\* to the call: a run resumes with the ones of the call it awaits.
PjOf(rs, r) == rs[r].pj

\* The run alone, given the answers of its model calls in order.
RECURSIVE Alone(_, _, _)
Alone(run, answers, i) ==
  IF i > Len(answers) THEN run
  ELSE LET a == answers[i]
           next == CASE a.raised -> CallRejected(run, run.pj)
                     [] run.gen.pc = "reason" -> ReasonAnswered(run, a.text)
                     [] run.gen.pc = "extract" -> ExtractAnswered(run, a.text)
                     [] run.gen.pc = "repair" -> RepairAnswered(run, run.pj, a.text)
                     [] OTHER -> run
       IN  Alone(next, answers, i + 1)

VARIABLES pj, gen, chat, console, extract, http, page, runs

vars == <<pj, gen, chat, console, extract, http, page, runs>>

Init ==
  /\ pj = PjIdle
  /\ gen = GenIdle
  /\ chat = ChatIdle
  /\ console = <<>>
  /\ extract = ExtractIdle
  /\ http = HttpIdle
  /\ page = PageIdle
  /\ runs = [r \in Runs |-> RunIdle]

\* A caller invokes parseJsonWithRetry on its own.
RecoverCall ==
  /\ pj.pc = "idle"
  /\ \E content \in RecoverInputs, m \in 0..MaxRetriesBound :
       LET st == PjEnter([system |-> "caller", user |-> <<>>], content, m)
       IN  /\ pj' = [st EXCEPT !.out = <<>>]
           /\ console' = console \o st.out
  /\ UNCHANGED <<gen, chat, extract, http, page, runs>>

RecoverRepairReturns ==
  /\ pj.pc = "repair"
  /\ \E resp \in RepairResponses :
       LET st == PjRepairReturned(pj, resp)
       IN  /\ pj' = [st EXCEPT !.out = <<>>]
           /\ console' = console \o st.out
  /\ UNCHANGED <<gen, chat, extract, http, page, runs>>

RecoverRepairRaises ==
  /\ pj.pc = "repair"
  /\ pj' = PjRepairRaised(pj, ApiError("rate_limit_exceeded"))
  /\ UNCHANGED <<gen, chat, console, extract, http, page, runs>>

NextRecover == RecoverCall \/ RecoverRepairReturns \/ RecoverRepairRaises

SpecRecover == Init /\ [][NextRecover]_vars

\* generateStaffingPlan(rfpText, approach, totalFTE) is called: it logs the
\* text and issues the stage-1 reasoning call.
GenCall ==
  /\ gen.pc = "idle"
  /\ \E approach \in {"top_down", "bottom_up"}, totalFTE \in {0, 2} :
       gen' = IssueReason([gen EXCEPT !.approach = approach, !.totalFTE = totalFTE], 1)
  /\ console' = Append(console, ConsoleLine("log", "TEXT BEING SENT TO LLM", NoError, <<>>))
  /\ UNCHANGED <<pj, chat, extract, http, page, runs>>

\* The reasoning call answers: the parser prompt is built around the answer
\* (|| "") and the (B) extraction call is issued.
GenReasonReturns ==
  /\ gen.pc = "reason"
  /\ \E text \in ReasonResponses :
       /\ gen' = [gen EXCEPT !.pc = "extract",
                             !.prompt = [system |-> "parser", user |-> text],
                             !.received = Append(gen.received, Answer(text, FALSE)),
                             !.calls = Append(gen.calls, ModelCall("extract", gen.stage))]
       /\ console' = Append(console, ConsoleLine("log", "STEP RAW", NoError, text))
  /\ UNCHANGED <<pj, chat, extract, http, page, runs>>

\* The extraction call answers: parseJsonWithRetry is entered with it and
\* runs to its first repair call, its return or its throw.
GenExtractReturns ==
  /\ gen.pc = "extract"
  /\ \E text \in ExtractResponses :
       LET st == PjEnter(gen.prompt, text, DefaultMaxRetries)
           g  == [gen EXCEPT !.received = Append(gen.received, Answer(text, FALSE))]
       IN  /\ pj' = [st EXCEPT !.out = <<>>]
           /\ gen' = GenAfterParse(g, st)
           /\ console' = Append(console, ConsoleLine("log", "STEP PARSER", NoError, text)) \o st.out
  /\ UNCHANGED <<chat, extract, http, page, runs>>

\* The repair call of the stage's parseJsonWithRetry answers.
GenRepairReturns ==
  /\ gen.pc = "repair"
  /\ \E text \in GenRepairResponses :
       LET st == PjRepairReturned(pj, text)
           g  == [gen EXCEPT !.received = Append(gen.received, Answer(text, FALSE))]
       IN  /\ pj' = [st EXCEPT !.out = <<>>]
           /\ gen' = GenAfterParse(g, st)
           /\ console' = console \o st.out
  /\ UNCHANGED <<chat, extract, http, page, runs>>

\* The pending model call rejects.
GenCallRaises ==
  /\ gen.pc \in {"reason", "extract", "repair"}
  /\ LET err == ApiError("rate_limit_exceeded")
         g   == [gen EXCEPT !.received = Append(gen.received, Answer(<<>>, TRUE))]
     IN  IF gen.pc = "repair"
         THEN /\ pj' = PjRepairRaised(pj, err)
              /\ gen' = GenAfterParse(g, pj')
         ELSE /\ gen' = Propagate(g, err)
              /\ UNCHANGED pj
  /\ UNCHANGED <<chat, console, extract, http, page, runs>>

NextGen ==
  GenCall \/ GenReasonReturns \/ GenExtractReturns \/ GenRepairReturns \/ GenCallRaises

SpecGen == Init /\ [][NextGen]_vars

\* Every pending model call is answered or rejects.
FairSpecGen == SpecGen /\ WF_vars(NextGen)

\* getChatResponse(message, planData, rfpText, history) is called: it
\* builds the plan snapshot and the messages and issues its model call; a
\* TypeError of the snapshot is raised to the caller.
ChatCall ==
  /\ chat.pc = "idle" /\ http.pc = "idle"
  /\ \E message \in MessageInputs, planData \in PlanInputs,
        rfpText \in RfpInputs, history \in HistoryInputs :
       LET trimmed == TrimPlan(planData)
       IN  chat' = IF trimmed.ok
                   THEN [chat EXCEPT !.pc = "call", !.message = message,
                                     !.planData = planData, !.history = history,
                                     !.request = ChatRequest(message, trimmed.val, rfpText, history)]
                   ELSE [chat EXCEPT !.pc = "thrown", !.message = message,
                                     !.planData = planData, !.history = history,
                                     !.error = TypeErr]
  /\ UNCHANGED <<pj, gen, console, extract, http, page, runs>>

\* The model call answers.
ChatCallReturns ==
  /\ chat.pc = "call"
  /\ \E content \in ChatReplies :
       LET r == ChatAnswered(chat.planData, content)
       IN  /\ chat' = [chat EXCEPT !.pc = IF r.thrown = NoError THEN "returned" ELSE "thrown",
                                   !.replied = TRUE, !.content = content,
                                   !.response = r.response, !.error = r.thrown]
           /\ console' = console \o r.out
  /\ UNCHANGED <<pj, gen, extract, http, page, runs>>

\* The model call rejects: with a context-length error, with another API
\* error, or with an error that has no code.
ChatCallRaises ==
  /\ chat.pc = "call"
  /\ \E code \in {"context_length_exceeded", "rate_limit_exceeded", "none"} :
       LET r == ChatCallFailed(ApiError(code))
       IN  /\ chat' = [chat EXCEPT !.pc = IF r.thrown = NoError THEN "returned" ELSE "thrown",
                                   !.raised = ApiError(code),
                                   !.response = r.response, !.error = r.thrown]
           /\ console' = console \o r.out
  /\ UNCHANGED <<pj, gen, extract, http, page, runs>>

\* extractTextFromFile(file) is called.
ExtractCall ==
  /\ extract.pc = "idle" /\ http.pc = "idle"
  /\ \E file \in FileInputs :
       LET st == ExtractEnter(file)
       IN  /\ extract' = [st EXCEPT !.out = <<>>]
           /\ console' = console \o st.out
  /\ UNCHANGED <<pj, gen, chat, http, page, runs>>

\* The PDF extractor resolves.
ExtractPdfReturns ==
  /\ extract.pc = "pdf"
  /\ \E given \in BOOLEAN, text \in ExtractedTexts :
       LET st == PdfReturned(extract, given, IF given THEN text ELSE <<>>)
       IN  /\ extract' = [st EXCEPT !.out = <<>>]
           /\ console' = console \o st.out
  /\ UNCHANGED <<pj, gen, chat, http, page, runs>>

\* The Word extractor resolves.
ExtractDocxReturns ==
  /\ extract.pc = "docx"
  /\ \E value \in ExtractedTexts :
       LET st == DocxReturned(extract, value)
       IN  /\ extract' = [st EXCEPT !.out = <<>>]
           /\ console' = console \o st.out
  /\ UNCHANGED <<pj, gen, chat, http, page, runs>>

\* The pending extractor rejects.
ExtractorRaises ==
  /\ extract.pc \in {"pdf", "docx"}
  /\ LET st == IF extract.pc = "pdf" THEN PdfFailed(extract, "bad XRef entry")
               ELSE DocxFailed(extract, "not a zip file")
     IN  /\ extract' = [st EXCEPT !.out = <<>>]
         /\ console' = console \o st.out
  /\ UNCHANGED <<pj, gen, chat, http, page, runs>>

\* POST /generate-plan up to its first response or await.
HttpGeneratePost ==
  /\ http.pc = "idle" /\ gen.pc = "idle" /\ extract.pc = "idle"
  /\ \E req \in GenerateRequests :
       LET h == [http EXCEPT !.request = req]
       IN  IF ~req.parsable
           THEN /\ http' = RespondFailure(h, BodyError, "Error generating staffing plan")
                /\ console' = Append(console, ConsoleLine("error", "Error generating staffing plan:",
                                                          BodyError, <<>>))
                /\ UNCHANGED gen
           ELSE IF "rfpText" \notin req.present
           THEN /\ http' = Respond(h, 400, "error", "RFP text is required")
                /\ UNCHANGED <<gen, console>>
           ELSE /\ http' = [h EXCEPT !.pc = "awaiting"]
                /\ gen' = IssueReason(
                             [gen EXCEPT !.approach = IF "approach" \in req.present
                                                      THEN "top_down" ELSE "undefined",
                                         !.totalFTE = IF "totalFTE" \in req.present THEN 2 ELSE 0],
                             1)
                /\ console' = Append(console, ConsoleLine("log", "TEXT BEING SENT TO LLM",
                                                          NoError, <<>>))
  /\ UNCHANGED <<pj, chat, extract, page, runs>>

\* generateStaffingPlan settles and POST /generate-plan responds.
HttpGenerateResponds ==
  /\ http.pc = "awaiting" /\ http.request.route = "generate-plan"
  /\ gen.pc \in {"done", "failed"}
  /\ IF gen.pc = "done"
     THEN /\ http' = Respond(http, 200, "plan", "")
          /\ UNCHANGED console
     ELSE /\ http' = RespondFailure(http, gen.error, "Error generating staffing plan")
          /\ console' = Append(console, ConsoleLine("error", "Error generating staffing plan:",
                                                    gen.error, <<>>))
  /\ UNCHANGED <<pj, gen, chat, extract, page, runs>>

\* POST /chat up to its first response or await.
HttpChatPost ==
  /\ http.pc = "idle" /\ chat.pc = "idle" /\ extract.pc = "idle"
  /\ \E req \in ChatRequests :
       LET h        == [http EXCEPT !.request = req]
           planData == IF "planData" \in req.present THEN PlanData1 ELSE Undefined
           rfpText  == IF "rfpText" \in req.present THEN <<"R", "F", "P">> ELSE <<>>
           trimmed  == TrimPlan(planData)
       IN  IF ~req.parsable
           THEN /\ http' = RespondFailure(h, BodyError, "Error getting chat response")
                /\ console' = Append(console, ConsoleLine("error", "Error getting chat response:",
                                                          BodyError, <<>>))
                /\ UNCHANGED chat
           ELSE IF "message" \notin req.present
           THEN /\ http' = Respond(h, 400, "error", "Message is required")
                /\ UNCHANGED <<chat, console>>
           ELSE /\ http' = [h EXCEPT !.pc = "awaiting"]
                /\ chat' = IF trimmed.ok /\ "history" \in req.present
                            THEN [chat EXCEPT !.pc = "call", !.message = <<"h", "i">>,
                                              !.planData = planData, !.history = HistoryOf(2),
                                              !.request = ChatRequest(<<"h", "i">>, trimmed.val,
                                                                      rfpText, HistoryOf(2))]
                            ELSE [chat EXCEPT !.pc = "thrown", !.message = <<"h", "i">>,
                                              !.planData = planData,
                                              !.error = TypeErr]
                /\ UNCHANGED console
  /\ UNCHANGED <<pj, gen, extract, page, runs>>

\* getChatResponse settles and POST /chat responds.
HttpChatResponds ==
  /\ http.pc = "awaiting" /\ http.request.route = "chat" /\ chat.pc \in {"returned", "thrown"}
  /\ IF chat.pc = "returned"
     THEN /\ http' = Respond(http, 200, "chat", "")
          /\ UNCHANGED console
     ELSE /\ http' = RespondFailure(http, chat.error, "Error getting chat response")
          /\ console' = Append(console, ConsoleLine("error", "Error getting chat response:",
                                                    chat.error, <<>>))
  /\ UNCHANGED <<pj, gen, chat, extract, page, runs>>

\* POST /upload up to its first response or await.
HttpUploadPost ==
  /\ http.pc = "idle" /\ extract.pc = "idle"
  /\ \E req \in UploadRequests :
       LET h  == [http EXCEPT !.request = req]
           st == ExtractEnter(req.file)
       IN  IF ~req.parsable
           THEN /\ http' = RespondFailure(h, BodyError, "Error processing file")
                /\ console' = Append(console, ConsoleLine("error", "Error processing file:",
                                                          BodyError, <<>>))
                /\ UNCHANGED extract
           ELSE IF "file" \notin req.present
           THEN /\ http' = Respond(h, 400, "error", "No file provided")
                /\ UNCHANGED <<extract, console>>
           ELSE /\ http' = [h EXCEPT !.pc = "awaiting"]
                /\ extract' = [st EXCEPT !.out = <<>>]
                /\ console' = console \o st.out
  /\ UNCHANGED <<pj, gen, chat, page, runs>>

\* extractTextFromFile settles and POST /upload responds.
HttpUploadResponds ==
  /\ http.pc = "awaiting" /\ http.request.route = "upload" /\ extract.pc \in {"returned", "thrown"}
  /\ IF extract.pc = "returned"
     THEN /\ http' = Respond(http, 200, "text", "")
          /\ UNCHANGED console
     ELSE /\ http' = RespondFailure(http, extract.error, "Error processing file")
          /\ console' = Append(console, ConsoleLine("error", "Error processing file:",
                                                    extract.error, <<>>))
  /\ UNCHANGED <<pj, gen, chat, extract, page, runs>>

\* getChatResponse called directly or through its route; a behaviour holds
\* one call.
NextChat ==
  ChatCall \/ ChatCallReturns \/ ChatCallRaises \/ HttpChatPost \/ HttpChatResponds

SpecChat == Init /\ [][NextChat]_vars

\* The generate-plan and upload routes, the calls they await, and
\* extractTextFromFile called on its own.  A behaviour holds one request or
\* one such call.
NextHttp ==
  \/ HttpGeneratePost \/ HttpGenerateResponds
  \/ HttpUploadPost \/ HttpUploadResponds
  \/ GenReasonReturns \/ GenExtractReturns \/ GenRepairReturns \/ GenCallRaises
  \/ ExtractCall \/ ExtractPdfReturns \/ ExtractDocxReturns \/ ExtractorRaises

SpecHttp == Init /\ [][NextHttp]_vars

\* The effect of the mount: the most recent plan of the store and its chat
\* messages are loaded.
PageLoad ==
  /\ page.staffingPlan = Null /\ page.sends = 0
  /\ page' = [page EXCEPT !.staffingPlan = page.stored]
  /\ UNCHANGED <<pj, gen, chat, console, extract, http, runs>>

\* The Send button is clicked, or Enter is pressed in the input field.
PageSend ==
  /\ page.sends < MaxSends /\ Len(page.flights) < MaxFlights
  /\ \E by \in {"button", "enter"}, inputMessage \in PageInputs :
       /\ by = "button" => ButtonEnabled(page)
       /\ page' = SendMessage(page, inputMessage)
  /\ UNCHANGED <<pj, gen, chat, console, extract, http, runs>>

\* The /chat request of a pending call is answered with what getChatResponse
\* returned.
PageResponse ==
  /\ \E i \in 1..Len(page.flights), content \in PageReplies, updateFails \in BOOLEAN :
       LET r == ChatAnswered(page.flights[i].planData, content)
       IN  /\ r.thrown = NoError
           /\ page' = ResponseArrived(page, i, r.response, updateFails)
  /\ UNCHANGED <<pj, gen, chat, console, extract, http, runs>>

\* The /chat request of a pending call is answered with an error status.
PageRequestFails ==
  /\ \E i \in 1..Len(page.flights) : page' = RequestFailed(page, i)
  /\ UNCHANGED <<pj, gen, chat, console, extract, http, runs>>

NextPage == PageLoad \/ PageSend \/ PageResponse \/ PageRequestFails

SpecPage == Init /\ [][NextPage]_vars

\* --------------------------------------------------------- concurrent runs

\* A request's handler calls generateStaffingPlan while others may be pending.
RunCall(r) ==
  /\ runs[r].gen.pc = "idle"
  /\ \E approach \in {"top_down", "bottom_up"} :
       runs' = [runs EXCEPT ![r] = RunStarted(approach, 2)]
  /\ UNCHANGED <<pj, gen, chat, console, extract, http, page>>

RunReasonReturns(r) ==
  /\ runs[r].gen.pc = "reason"
  /\ runs' = [runs EXCEPT ![r] = ReasonAnswered(runs[r], <<"r">>)]
  /\ UNCHANGED <<pj, gen, chat, console, extract, http, page>>

RunExtractReturns(r) ==
  /\ runs[r].gen.pc = "extract"
  /\ \E text \in RunResponses :
       runs' = [runs EXCEPT ![r] = ExtractAnswered(runs[r], text)]
  /\ UNCHANGED <<pj, gen, chat, console, extract, http, page>>

RunRepairReturns(r) ==
  /\ runs[r].gen.pc = "repair"
  /\ \E text \in RunResponses :
       runs' = [runs EXCEPT ![r] = RepairAnswered(runs[r], PjOf(runs, r), text)]
  /\ UNCHANGED <<pj, gen, chat, console, extract, http, page>>

RunCallRaises(r) ==
  /\ runs[r].gen.pc \in {"reason", "extract", "repair"}
  /\ runs' = [runs EXCEPT ![r] = CallRejected(runs[r], PjOf(runs, r))]
  /\ UNCHANGED <<pj, gen, chat, console, extract, http, page>>

NextRuns ==
  \E r \in Runs :
    \/ RunCall(r)
    \/ RunReasonReturns(r)
    \/ RunExtractReturns(r)
    \/ RunRepairReturns(r)
    \/ RunCallRaises(r)

SpecRuns == Init /\ [][NextRuns]_vars

\* ------------------------------------------------------- recovery claims

\* Whether text t, once sanitized, fails to parse.
Malformed(t) == ~JsonParse(sanitizePotentialFormatting(t)).ok

\* The call's text and every repair response received so far are malformed.
AllMalformed ==
  /\ Malformed(pj.content)
  /\ \A i \in 1..Len(pj.responses) : Malformed(pj.responses[i])

\* The last text handed to JSON.parse.
LastTried ==
  IF pj.responses = <<>> THEN sanitizePotentialFormatting(pj.content)
  ELSE sanitizePotentialFormatting(pj.responses[Len(pj.responses)])

\* parseJsonWithRetry gave up: the parse failed with no attempt left.
Exhausted == pj.pc = "thrown" /\ pj.attempt > pj.maxRetries

\* C1: valid JSON wrapped in code fences, stray parentheses and white space
\* is returned as the value of the wrapped JSON, with no repair call.
C1_WrappedJsonRecovered ==
  \A pre \in Prefixes, j \in JsonTexts, suf \in Suffixes :
    (pj.pc # "idle" /\ pj.content = pre \o j \o suf) =>
      /\ pj.pc = "returned"
      /\ pj.result = JsonParse(j).val
      /\ pj.calls = 0

\* C2: at most maxRetries repair calls are ever issued; when the text and
\* every repair response are malformed no value is returned, and the call
\* has failed once maxRetries responses are in.
C2_BoundedRepairsThenFail ==
  /\ pj.calls <= pj.maxRetries
  /\ (pj.pc # "idle" /\ AllMalformed) =>
       /\ pj.pc \in {"repair", "thrown"}
       /\ (Len(pj.responses) = pj.maxRetries => pj.pc = "thrown")

C2_Witness ==
  /\ AllMalformed
  /\ pj.maxRetries = MaxRetriesBound
  /\ pj.calls = pj.maxRetries
  /\ Exhausted

\* C3 as claimed: the error raised on giving up carries the last raw text
\* and the last parse error.
C3_ErrorCarriesRawAndParseError ==
  Exhausted =>
    /\ {"raw", "parseError"} \subseteq DOMAIN pj.error
    /\ pj.error.raw = LastTried
    /\ pj.error.parseError = SyntaxErrorOf(LastTried)

\* C3 as the code has it: the error raised on giving up carries only the
\* fixed message; the last parse error and the last raw text are the last
\* two lines written to the error console.
C3_ErrorFixedDiagnosticsLogged ==
  Exhausted =>
    /\ pj.error = MaxRetriesExceeded
    /\ DOMAIN pj.error = {"name", "message", "code"}
    /\ Len(console) >= 2
    /\ console[Len(console) - 1] =
         ConsoleLine("error", "Error parsing JSON, max retries exceeded:",
                     SyntaxErrorOf(LastTried), <<>>)
    /\ console[Len(console)] = ConsoleLine("error", "Last raw content was:", NoError, LastTried)

C3_Witness == Exhausted /\ Len(pj.responses) = 2 /\ LastTried = T_Truncated

\* ------------------------------------------------------- pipeline claims

\* The repair calls issued for stage n.
RepairsOf(n) ==
  Cardinality({ i \in 1..Len(gen.calls) : gen.calls[i] = ModelCall("repair", n) })

GenEnded == gen.pc \in {"done", "failed"}

\* C4: with every model call answered, a started run ends; no stage issues
\* more than maxRetries repair calls and a run at most 6 + 3 * maxRetries
\* model calls.
C4_TerminatesWithinBudget ==
  /\ [](/\ Len(gen.calls) <= 6 + 3 * DefaultMaxRetries
        /\ \A n \in Stages : RepairsOf(n) <= DefaultMaxRetries)
  /\ (gen.pc # "idle") ~> GenEnded

C4_Witness == gen.pc = "done" /\ Len(gen.calls) = 6 + 3 * DefaultMaxRetries

\* Whether call b may directly follow call a.
Follows(a, b) ==
  \/ a.kind = "reason" /\ b = ModelCall("extract", a.stage)
  \/ a.kind \in {"extract", "repair"} /\ b = ModelCall("repair", a.stage)
  \/ a.kind \in {"extract", "repair"} /\ a.stage < 3 /\ b = ModelCall("reason", a.stage + 1)

\* C5: the model calls of a run are issued in the order reason1, extract1,
\* repairs1*, reason2, ..., and the first call of stage n+1 directly follows
\* an answer of stage n that parses once sanitized (a repair call one that
\* does not).
C5_StagesInOrder ==
  LET c == gen.calls
  IN  /\ Len(c) > 0 => c[1] = ModelCall("reason", 1)
      /\ \A i \in 1..(Len(c) - 1) :
           /\ Follows(c[i], c[i + 1])
           /\ Len(gen.received) >= i /\ ~gen.received[i].raised
           /\ c[i + 1].kind = "reason" => ~Malformed(gen.received[i].text)
           /\ c[i + 1].kind = "repair" => Malformed(gen.received[i].text)

C5_Witness ==
  /\ gen.pc = "done"
  /\ \A n \in Stages : RepairsOf(n) >= 1

\* A stage failed: its recovery threw, or one of its model calls rejected.
StageFailed ==
  /\ gen.pc # "idle"
  /\ \/ pj.pc = "thrown"
     \/ \E i \in 1..Len(gen.received) : gen.received[i].raised

\* C6: once a stage has failed the run has failed, it returns no plan and
\* no model call is pending; a failed run does nothing more.
C6_FailureAbortsRun ==
  /\ [](StageFailed => /\ gen.pc = "failed"
                       /\ gen.result = NoPlan
                       /\ Len(gen.calls) = Len(gen.received))
  /\ [][gen.pc = "failed" => gen' = gen]_vars

C6_Witness ==
  /\ gen.pc = "failed"
  /\ gen.stage = 3
  /\ gen.tasksStep2 # NoValue
  /\ Exhausted

\* Whether v is an object with a tasks array.
HasTasksArray(v) == Get(v, W_tasks).t = "arr"

\* Whether v is {tasks: [...]} with numeric hours on every line.
IsStaffingPlan(v) ==
  /\ HasTasksArray(v)
  /\ \A i \in 1..Len(Get(v, W_tasks).c) : Get(Items(Get(v, W_tasks))[i], W_hours).t = "num"

\* C7: a plan is returned only if every stage value has a tasks array and
\* every staffing line has numeric hours.
C7_MisshapenResultIsFatal ==
  gen.result.returned =>
    /\ HasTasksArray(gen.result.step1Tasks)
    /\ HasTasksArray(gen.result.step2TasksWithLCATs)
    /\ IsStaffingPlan(gen.result.finalStaffingPlan)

\* The value recovered in a finished stage: what the sanitized last answer
\* of the stage's extraction and repair calls parses to.
RecoveredAt(stage) ==
  LET of   == { i \in 1..Len(gen.received) : gen.calls[i].stage = stage }
      last == CHOOSE i \in of : \A j \in of : j <= i
  IN  ParseMemo[SanitizeMemo[gen.received[last].text]].val

\* C23: the pending extraction call carries the stage's reasoning answer; the
\* reasoning request of stage 2 embeds the value recovered in stage 1 and
\* that of stage 3 the value recovered in stage 2, as a text that parses back
\* to that value; and the plan returned holds the three recovered values.
C23_StagesThreadRecoveredValues ==
  /\ gen.pc = "extract" => gen.prompt.user = gen.received[Len(gen.received)].text
  /\ gen.stage \in {2, 3} =>
       /\ gen.embedded = Stringify(RecoveredAt(gen.stage - 1), 0)
       /\ JsonParse(gen.embedded).ok
       /\ JsonParse(gen.embedded).val = RecoveredAt(gen.stage - 1)
  /\ gen.pc = "done" =>
       /\ gen.result.step1Tasks = RecoveredAt(1)
       /\ gen.result.step2TasksWithLCATs = RecoveredAt(2)
       /\ gen.result.finalStaffingPlan = RecoveredAt(3)

\* A run returned three different recovered values.
C23_Witness ==
  /\ gen.pc = "done"
  /\ gen.result.step1Tasks # gen.result.step2TasksWithLCATs
  /\ gen.result.step2TasksWithLCATs # gen.result.finalStaffingPlan
  /\ gen.result.step1Tasks # gen.result.finalStaffingPlan
  /\ gen.embedded = Stringify(gen.result.step2TasksWithLCATs, 0)

\* ----------------------------------------------------------- chat claims

\* C8 as claimed: a reply without the marker is returned whole as the
\* message, with no updatedPlan and no error.
C8_NoMarkerReplyIsMessage ==
  (chat.replied /\ ~Includes(chat.content, Marker)) =>
    /\ chat.pc = "returned"
    /\ chat.response = Response({"message"}, chat.content, Undefined, "none")

\* C8 amended: a non-empty reply without the marker is returned whole as the
\* message, an empty or missing reply is answered with the fixed apology; in
\* both cases the response has no updatedPlan and no error.
C8_NoMarkerReplyOrApology ==
  (chat.replied /\ ~Includes(chat.content, Marker)) =>
    /\ chat.pc = "returned"
    /\ chat.response.keys = {"message"}
    /\ chat.response.updatedPlan = Undefined
    /\ chat.response.error = "none"
    /\ chat.response.message = IF chat.content = <<>> THEN SorryMessage ELSE chat.content

\* A reply that holds a whole plan object and no marker has been answered.
C8_Witness ==
  /\ chat.replied
  /\ chat.content = T_Plan
  /\ chat.planData = PlanData1
  /\ chat.response.message = T_Plan

\* C9: for a reply made of the marker, a JSON object j and an explanation e,
\* the text logged as extracted is exactly j, and an accepted update is
\* answered with exactly the trimmed e (the fixed sentence when e is blank).
C9_ScanExtractsObjectAndExplanation ==
  \A sep \in {<<>>, <<"\n">>}, j \in UpdateObjects, e \in Explanations :
    (chat.replied /\ chat.content = Marker \o sep \o j \o e) =>
      /\ \E i \in 1..Len(console) :
           console[i] = ConsoleLine("log", "Extracted JSON:", NoError, j)
      /\ "updatedPlan" \in chat.response.keys =>
           chat.response.message = IF Trim(e) = <<>> THEN UpdatedMessage ELSE Trim(e)

\* Whether v is there and is not the empty text.
NonEmptyValue(v) == ~IsNullish(v) /\ v # StrV(<<>>)

\* Whether v is {tasks: [...]} whose every line has a non-empty taskId, a
\* non-empty lcat and numeric hours.
WellFormedUpdate(v) ==
  /\ HasTasksArray(v)
  /\ \A i \in 1..Len(Get(v, W_tasks).c) :
       LET line == Items(Get(v, W_tasks))[i]
       IN  /\ line.t = "obj"
           /\ NonEmptyValue(Get(line, W_taskId))
           /\ NonEmptyValue(Get(line, W_lcat))
           /\ Get(line, W_hours).t = "num"

\* The reply holds the marker and what was extracted after it does not parse
\* or is not a well-formed update.
InvalidUpdateReplied ==
  /\ chat.replied
  /\ Includes(chat.content, Marker)
  /\ LET parsed == JsonParse(ExtractUpdate(chat.content).jsonStr)
     IN  ~parsed.ok \/ ~WellFormedUpdate(parsed.val)

\* C10: when the marker is present and the extracted text fails to parse or
\* fails validation, getChatResponse returns (does not throw) the
\* clarification message with the error marker and no updatedPlan.
C10_InvalidUpdateIsSoftFailure ==
  InvalidUpdateReplied =>
    /\ chat.pc = "returned"
    /\ chat.error = NoError
    /\ chat.response = Response({"message", "error"}, ClarifyMessage, Undefined,
                                "Failed to parse plan update")

\* An update whose line lacks hours has been answered.
C10_Witness ==
  /\ InvalidUpdateReplied
  /\ chat.content = Marker \o <<"\n">> \o T_PlanNoHours \o <<"\n", "o", "k">>
  /\ chat.planData = PlanData1
  /\ chat.response.error = "Failed to parse plan update"

\* What JSON.parse makes of the text extracted from the reply.
ParsedUpdate == JsonParse(ExtractUpdate(chat.content).jsonStr)

\* The parsed update has a tasks array with a line that has no hours.
LineWithoutHours ==
  /\ ParsedUpdate.ok
  /\ HasTasksArray(ParsedUpdate.val)
  /\ \E i \in 1..Len(Get(ParsedUpdate.val, W_tasks).c) :
       Get(Items(Get(ParsedUpdate.val, W_tasks))[i], W_hours) = Undefined

\* C11: an updatedPlan is returned only for a reply whose parsed update has
\* a tasks array with a non-empty taskId, a non-empty lcat and numeric hours
\* on every line; an update with a line without hours is answered with no
\* updatedPlan at all, and the plan handed in is the one still held.
C11_UpdatedPlanOnlyIfWellFormed ==
  /\ (chat.replied /\ "updatedPlan" \in chat.response.keys) =>
       /\ Includes(chat.content, Marker)
       /\ ParsedUpdate.ok
       /\ WellFormedUpdate(ParsedUpdate.val)
  /\ (chat.replied /\ Includes(chat.content, Marker) /\ LineWithoutHours) =>
       /\ "updatedPlan" \notin chat.response.keys
       /\ chat.response.updatedPlan = Undefined
       /\ chat.response.error = "Failed to parse plan update"

\* An update whose second line lacks hours has been answered.
C11_Witness ==
  /\ chat.replied
  /\ chat.content = Marker \o <<"\n">> \o T_PlanSecondNoHours \o <<"\n", "o", "k">>
  /\ chat.planData = PlanData1
  /\ LineWithoutHours
  /\ chat.pc = "returned"

\* Every reply made of the marker, JSON object j and an explanation.
RepliesWith(j) ==
  { Marker \o sep \o j \o e : sep \in {<<>>, <<"\n">>},
                               e \in Explanations \cup {<<"\n", "o", "k">>} }

\* The task list of the plan a revision returned.
RevisedTasks == Get(Get(chat.response.updatedPlan, W_finalStaffingPlan), W_tasks)

\* C12: the task list of a returned updatedPlan is the task list of the
\* update the reply carried, line for line and in the same order.
C12_TasksReplacedWholesale ==
  \A j \in UpdateObjects \cup MoreUpdateObjects :
    (chat.replied /\ "updatedPlan" \in chat.response.keys /\ chat.content \in RepliesWith(j)) =>
      RevisedTasks = Get(JsonParse(j).val, W_tasks)

\* A plan holding line 1 was revised by an update of line 2 then line 1.
C12_Witness ==
  /\ chat.replied
  /\ chat.planData = PlanData1
  /\ chat.content = Marker \o <<"\n">> \o TasksText(T_Line2 \o <<",">> \o T_Line) \o <<"\n", "o", "k">>
  /\ "updatedPlan" \in chat.response.keys
  /\ Len(RevisedTasks.c) = 2

\* C13: a model call that fails with a context-length error is answered
\* with the fixed message and the error marker, nothing thrown; a call that
\* fails with any other error makes getChatResponse throw, with no response.
C13_OnlyContextLengthIsSoft ==
  chat.raised # NoError =>
    IF chat.raised.code = "context_length_exceeded"
    THEN /\ chat.pc = "returned"
         /\ chat.error = NoError
         /\ chat.response = Response({"message", "error"}, TooLongMessage, Undefined,
                                     "Message too long")
    ELSE /\ chat.pc = "thrown"
         /\ chat.error.name = "Error"
         /\ chat.response = NoResponse

\* The model call failed with a context-length error.
C13_Witness ==
  /\ chat.raised = ApiError("context_length_exceeded")
  /\ chat.pc = "returned"
  /\ chat.response.error = "Message too long"

\* A revision was accepted: the response holds an updatedPlan.
Revised == chat.replied /\ "updatedPlan" \in chat.response.keys

\* The lines of the accepted revision.
RevisedLines == Items(RevisedTasks)

\* C14: every line of an accepted revision has hours >= 0.
C14_HoursNonNegative ==
  Revised =>
    \A i \in 1..Len(RevisedLines) :
      /\ Get(RevisedLines[i], W_hours).t = "num"
      /\ Get(RevisedLines[i], W_hours).n >= 0

\* C15: an accepted revision holds at most one line per (taskId, lcat) pair.
C15_OneLinePerTaskAndLcat ==
  Revised =>
    \A i, j \in 1..Len(RevisedLines) :
      ( /\ Get(RevisedLines[i], W_taskId) = Get(RevisedLines[j], W_taskId)
        /\ Get(RevisedLines[i], W_lcat) = Get(RevisedLines[j], W_lcat) ) => i = j

\* C16: every line of an accepted revision carries a non-empty
\* mathRationale.
C16_RationaleOnEveryLine ==
  Revised =>
    \A i \in 1..Len(RevisedLines) : NonEmptyValue(Get(RevisedLines[i], W_mathRationale))

\* The keys of an object, in order.
KeysOf(v) == [i \in 1..Len(v.c) |-> v.c[i].k]

\* C25: every top-level field of the plan handed in, other than
\* finalStaffingPlan, is in the updatedPlan of an accepted revision with the
\* same value, updatedPlan holds no other field, and the plan handed in is
\* the same after the call as before.
C25_OtherFieldsKept ==
  /\ [](Revised =>
         /\ \A i \in 1..Len(chat.planData.c) :
              chat.planData.c[i].k # W_finalStaffingPlan =>
                chat.planData.c[i] \in { chat.response.updatedPlan.c[j] :
                                           j \in 1..Len(chat.response.updatedPlan.c) }
         /\ { KeysOf(chat.response.updatedPlan)[j] : j \in 1..Len(chat.response.updatedPlan.c) }
              = { KeysOf(chat.planData)[j] : j \in 1..Len(chat.planData.c) }
                  \cup {W_finalStaffingPlan})
  /\ [][chat.pc = "call" => chat'.planData = chat.planData]_vars

\* A plan with five top-level fields was revised.
C25_Witness ==
  /\ Revised
  /\ chat.planData = PlanDataFull
  /\ Len(chat.response.updatedPlan.c) = 5
  /\ RevisedTasks # Get(Get(PlanDataFull, W_finalStaffingPlan), W_tasks)

\* The request of the call has been built.
RequestBuilt == chat.pc \in {"call", "returned"} \/ (chat.pc = "thrown" /\ chat.error # TypeErr)

\* The positions of the 5 most recent turns of the history handed in.
RecentPositions ==
  { k \in 1..Len(chat.history) : k > Len(chat.history) - 5 }

\* The turns t are recent turns of the history, in the order of the history.
FromRecentInOrder(t) ==
  \E pos \in [1..Len(t) -> RecentPositions] :
    /\ \A i \in 1..Len(t) : chat.history[pos[i]] = t[i]
    /\ \A i, j \in 1..Len(t) : i < j => pos[i] < pos[j]

\* C26 as claimed: after the system instruction the request holds at most 5
\* turns, all from the 5 most recent of the history and in its order, and
\* then the current user message, last.
C26_WindowThenMessage ==
  RequestBuilt =>
    LET t == chat.request.turns
    IN  /\ Len(t) >= 1
        /\ t[Len(t)] = Turn("user", chat.message)
        /\ Len(t) - 1 <= 5
        /\ FromRecentInOrder(SubSeq(t, 1, Len(t) - 1))

\* C26 as the code has it: the same, except that a user message that is
\* blank is left out of the request, which then ends with a history turn or
\* holds the system instruction alone.
C26_WindowThenNonBlankMessage ==
  RequestBuilt =>
    LET t == chat.request.turns
    IN  IF Trim(chat.message) = <<>>
        THEN Len(t) <= 5 /\ FromRecentInOrder(t)
        ELSE /\ Len(t) >= 1
             /\ t[Len(t)] = Turn("user", chat.message)
             /\ Len(t) - 1 <= 5
             /\ FromRecentInOrder(SubSeq(t, 1, Len(t) - 1))

\* A history of six turns: the request holds turns 2, 4, 5 and 6 and the
\* message.
C26_Witness ==
  /\ RequestBuilt
  /\ Len(chat.history) = MaxHistory
  /\ chat.message = <<"h", "i">>
  /\ Len(chat.request.turns) = 5
  /\ chat.request.turns[1] = chat.history[2]

\* The staffing lines of the plan handed in, under the key the pipeline
\* returns them with or under the key of the stored record.
PlanLines ==
  LET a == OptGet(OptGet(chat.planData, W_finalStaffingPlan), W_tasks)
      b == OptGet(OptGet(chat.planData, W_final_staffing_plan), W_tasks)
  IN  IF a.t = "arr" THEN Items(a) ELSE IF b.t = "arr" THEN Items(b) ELSE <<>>

\* The lines of the snapshot in the system instruction of the request.
SnapshotLines ==
  LET t == OptGet(OptGet(chat.request.system.plan, W_finalStaffingPlan), W_tasks)
  IN  IF t.t = "arr" THEN Items(t) ELSE <<>>

\* C27: when the plan handed in has staffing lines, the request holds a
\* snapshot with one line per staffing line, carrying its taskId, lcat,
\* hours, mathRationale and basis; also for the plan as the page posts it.
C27_RequestCarriesSnapshot ==
  (RequestBuilt /\ PlanLines # <<>>) =>
    /\ Len(SnapshotLines) = Len(PlanLines)
    /\ \A i \in 1..Len(PlanLines) : \A k \in 1..Len(SnapshotKeys) :
         Get(SnapshotLines[i], SnapshotKeys[k]) = Get(PlanLines[i], SnapshotKeys[k])

\* -------------------------------------------------- repair-order claims

\* The sanitized text parses.
ParsesSanitized(text) == ParseMemo[SanitizeMemo[text]].ok

\* The original text did not parse and the k-th repair response is the first
\* text that did.
FirstParsing(k) ==
  /\ k \in 1..Len(pj.responses)
  /\ ~ParsesSanitized(pj.content)
  /\ \A j \in 1..(k - 1) : ~ParsesSanitized(pj.responses[j])
  /\ ParsesSanitized(pj.responses[k])

\* C20: when the original text fails to parse and the k-th repair response,
\* k within maxRetries, is the first text that parses, parseJsonWithRetry
\* has returned the parsed value of that sanitized response after exactly k
\* repair calls, and none follows.
C20_FirstParsingRepairReturned ==
  \A k \in 1..MaxRetriesBound :
    (pj.pc # "idle" /\ k <= pj.maxRetries /\ FirstParsing(k)) =>
      /\ pj.pc = "returned"
      /\ pj.result = ParseMemo[SanitizeMemo[pj.responses[k]]].val
      /\ pj.calls = k
      /\ Len(pj.responses) = k
      /\ ~ENABLED RecoverRepairReturns

\* The second repair response was the first text to parse.
C20_Witness ==
  /\ pj.pc = "returned"
  /\ pj.maxRetries = 2
  /\ FirstParsing(2)
  /\ pj.calls = 2

\* C21: a pending repair call holds the original context unchanged and one
\* added system instruction quoting the latest parse error and the latest
\* sanitized text, nothing of earlier repair calls; and the text parsed after
\* a repair response is the sanitized response.
C21_RepairCallIsContextPlusOne ==
  /\ pj.pc = "repair" =>
       /\ pj.request.context = pj.messages
       /\ pj.request.added = << RepairInstruction(SyntaxErrorOf(LastTried), LastTried) >>
  /\ (pj.pc # "idle" /\ pj.responses # <<>>) => pj.raw = LastTried

\* The second repair call is pending: its instruction quotes the first
\* response, not the original text.
C21_Witness ==
  /\ pj.pc = "repair"
  /\ Len(pj.responses) = 1
  /\ pj.calls = 2
  /\ LastTried # sanitizePotentialFormatting(pj.content)
  /\ pj.request.added[1].raw = LastTried

\* C22: a text that is valid JSON as it stands is returned at the first
\* parse, with no repair call, as the value the text itself parses to.
C22_ValidJsonUntouched ==
  (pj.pc # "idle" /\ JsonParse(pj.content).ok) =>
    /\ pj.pc = "returned"
    /\ pj.calls = 0
    /\ pj.result = JsonParse(pj.content).val

\* ------------------------------------------------------- numerical claims

\* "Assume 1880 hours per FTE", as the stage-3 reasoning request words it.
HoursPerFTE == 1880

\* The sum of the numeric hours of lines.
RECURSIVE SumHours(_)
SumHours(lines) ==
  IF lines = <<>> THEN 0
  ELSE (IF Get(Head(lines), W_hours).t = "num" THEN Get(Head(lines), W_hours).n ELSE 0)
         + SumHours(Tail(lines))

\* C17: the hours of a plan returned for approach top_down and totalFTE = n
\* add up to n * 1880.
C17_TopDownTotalFromFTE ==
  (gen.result.returned /\ gen.approach = "top_down") =>
    SumHours(Items(Get(gen.result.finalStaffingPlan, W_tasks))) = gen.totalFTE * HoursPerFTE

\* ----------------------------------------------------------- route claims

\* The fields the claim calls required, per route.
RequiredFields(route) ==
  IF route = "generate-plan" THEN {"rfpText", "approach"}
  ELSE IF route = "chat" THEN {"message", "planData", "history"}
  ELSE IF route = "upload" THEN {"file"}
  ELSE {}

\* The request answered had a readable body that lacked a required field.
MissingRequired ==
  http.request.parsable /\ ~(RequiredFields(http.request.route) \subseteq http.request.present)

\* The pipeline, the model call of the chat, or the extraction failed.
BackendFailed ==
  \/ gen.pc = "failed"
  \/ extract.pc = "thrown"
  \/ chat.pc = "thrown" /\ (chat.replied \/ chat.raised # NoError)

\* C18: a request with a readable body that lacks a required field is
\* answered with status 400 and an {error} body, and the response to a
\* readable request has status 500 only when the pipeline, the model or the
\* extraction failed.
C18_MissingFieldIs400 ==
  (http.pc = "responded" /\ http.request.parsable) =>
    /\ MissingRequired => (http.status = 400 /\ http.kind = "error")
    /\ http.status = 500 => BackendFailed

\* C19: extractTextFromFile called with a missing or empty buffer throws
\* without having called an extractor, whatever the MIME type, and so does a
\* call with a MIME type that is neither PDF nor docx.
C19_RejectsBeforeExtraction ==
  ( /\ extract.pc # "idle"
    /\ \/ ~extract.file.hasBuffer
       \/ extract.file.length = 0
       \/ extract.file.mimetype \notin {PdfType, DocxType} )
  => (extract.pc = "thrown" /\ extract.invoked = <<>> /\ extract.error # NoError)

\* An empty buffer that claims to be a PDF has been rejected.
C19_Witness ==
  /\ extract.pc = "thrown"
  /\ extract.file = FileOf(TRUE, 0, PdfType)
  /\ extract.error = ErrorOf("Failed to process file: Empty file buffer received")
  /\ extract.invoked = <<>>

\* ------------------------------------------------------------ page claims

\* The members of a plan record other than its final staffing plan and its
\* time of update.
FixedMembers(row) ==
  { row.c[i] : i \in { j \in 1..Len(row.c) :
                         row.c[j].k \notin {W_final_staffing_plan, W_updated_at} } }

\* A call of handleSendMessage ended in this step.
TurnEnded == Len(page'.flights) < Len(page.flights)

\* C28: every step of a session leaves the members of the stored plan, and
\* of the plan in memory, other than the final staffing plan and the time of
\* update as they were; a stored final staffing plan that changes becomes
\* the whole one of the response; and a turn that ends without an
\* updatedPlan in its response leaves both plans as they were.
C28_OnlyFinalPlanReplaced ==
  [][ /\ FixedMembers(page'.stored) = FixedMembers(page.stored)
      /\ page.staffingPlan # Null =>
           FixedMembers(page'.staffingPlan) = FixedMembers(page.staffingPlan)
      /\ page'.stored # page.stored =>
           /\ TurnEnded
           /\ Get(page'.stored, W_final_staffing_plan)
                = Get(page'.data.updatedPlan, W_finalStaffingPlan)
      /\ (TurnEnded /\ "updatedPlan" \notin page'.data.keys) =>
           (page'.stored = page.stored /\ page'.staffingPlan = page.staffingPlan)
    ]_vars

\* Two revisions were stored and a turn without update followed.
C28_Witness ==
  /\ page.clock = 2
  /\ page.sends = 3
  /\ page.flights = <<>>
  /\ "updatedPlan" \notin page.data.keys
  /\ Get(page.stored, W_final_staffing_plan) # Get(PlanDataRow, W_final_staffing_plan)
  /\ page.stored = page.staffingPlan

\* C29: at most one handleSendMessage call awaits its /chat response.
C29_OneRequestInFlight == Len(page.flights) <= 1

\* ----------------------------------------------------- concurrency claims

\* C24: whatever the interleaving of two generateStaffingPlan runs, each
\* run's locals, result and failure are those of the run alone given the
\* same answers to its model calls.
C24_RunsDoNotInterfere ==
  \A r \in Runs :
    runs[r].gen.pc # "idle" =>
      runs[r].gen = Alone(RunStarted(runs[r].gen.approach, runs[r].gen.totalFTE),
                          runs[r].gen.received, 1).gen

\* Both runs await a repair call at once, in different stages and after a
\* different number of repairs.
C24_Witness ==
  /\ runs[1].gen.pc = "repair" /\ runs[1].gen.stage = 2 /\ runs[1].pj.attempt = 2
  /\ runs[2].gen.pc = "repair" /\ runs[2].gen.stage = 3 /\ runs[2].pj.attempt = 1
====
